---- MODULE Spec2Model ----
(***************************************************************************)
(* IntelliRead: the content-cache-and-highlight pipeline.                 *)
(*                                                                         *)
(*   src/cache.js    the IndexedDB store: highlights (cache entries keyed *)
(*                   by [domain, contentHash]), highlighted_urls,          *)
(*                   auto_highlight_domains, and the expiration sweep.     *)
(*   src/content.js  analyzePageContent: processElement per <p> element,   *)
(*                   run by processWithConcurrencyLimit(elements, .., 5).  *)
(*                                                                         *)
(* JavaScript runs one macrotask at a time and drains the microtask queue  *)
(* after it.  An action of this module is one macrotask (the completion of *)
(* one awaited external operation: a message round trip, a digest, an      *)
(* IndexedDB request, a fetch) together with every microtask it triggers:  *)
(* the rest of the async function up to its next real suspension, the      *)
(* `clean` callbacks, and the continuation of the scheduler's loop.        *)
(*                                                                         *)
(* Time is counted in ticks of the clock Date.now() reads.                 *)
(***************************************************************************)
EXTENDS Integers, Sequences, FiniteSets, TLC

\* ------------------------------------------------------------------ bounds

\* Paragraphs on the long page of the scheduler specification.
MaxParas == 6

\* Ticks the clock may run past the expiration time.
TimeSlack == 1

\* Page loads that follow the first.
MaxLoads == 1

\* Occurrences of one phrase in a paragraph.
MaxRepeats == 6

\* Calls of analyzePageContent on one document from one trigger.
MaxRuns == 2

\* calls of checkAndAutoHighlight that find no cache API
MaxPolls == 3

\* ------------------------------------------------------- program constants

\* content.js:219 processWithConcurrencyLimit(elements, processElement, 5)
LIMIT == 5

\* content.js:149 if (text.length < 30) return;
MIN_LENGTH == 30

\* content.js:179 .slice(0, 5)
MAX_KEYPOINTS == 5

\* cache.js:17 CACHE_EXPIRATION = 30 * 24 * 60 * 60 * 1000 ms.  TLC's integers
\* are 32 bits wide and cannot hold 2592000000, so the clock of the model ticks
\* once every 15 days and the expiration time is 2 ticks.  The code only
\* subtracts and compares instants, so nothing but their order and their
\* distance in ticks matters.
CACHE_EXPIRATION == 2

MaxTime == CACHE_EXPIRATION + TimeSlack

\* ------------------------------------------------------------------- text

RECURSIVE Rep(_, _)
Rep(c, n) == IF n = 0 THEN "" ELSE c \o Rep(c, n - 1)

\* phrases a reply of the remote model may hold
KeyA == "key"
KeyB == "keyx"

\* paragraph texts: 31, 30 and 29 characters
TextLong == KeyA \o Rep("x", MIN_LENGTH - 2)
Text30 == KeyA \o Rep("y", MIN_LENGTH - 3)
Text29 == KeyA \o Rep("z", MIN_LENGTH - 4)

Texts == {TextLong, Text30, Text29}

\* text.includes(keypoint)
Includes(text, k) ==
  \E i \in 0..(Len(text) - Len(k)) : SubSeq(text, i + 1, i + Len(k)) = k

\* JSON values of a parsed reply: a string, or null (JSON.parse("[null]")).
Str(s) == [type |-> "string", chars |-> s]
JsonNull == [type |-> "null", chars |-> ""]

\* ------------------------------------------------------------------ hasher

\* calculateHash: the SHA-256 digest of the text as lowercase hex.  SHA-256
\* itself is the browser's; it is modelled as what the code relies on, a
\* deterministic function without collisions on the texts of the model: the
\* digest of a text is a hex string set by the text's length and its last
\* character.
HexDigit(n) == SubSeq("0123456789abcdef", n + 1, n + 1)

\* b.toString(16).padStart(2, '0')
ToHex2(b) == HexDigit(b \div 16) \o HexDigit(b % 16)

CharCode(c) ==
  CASE c = "x" -> 120 [] c = "y" -> 121 [] c = "z" -> 122
    [] c = "k" -> 107 [] c = "e" -> 101 [] OTHER -> 0

LastChar(content) == SubSeq(content, Len(content), Len(content))

calculateHash(content) ==
  ToHex2(Len(content) % 256)
    \o (IF Len(content) = 0 THEN ToHex2(0) ELSE ToHex2(CharCode(LastChar(content))))

\* --------------------------------------------------------------- locations

\* window.location of a page: hostname is the cache's partition key, href the
\* key of the highlighted_urls store.
Loc(host, href) == [hostname |-> host, href |-> href]

LocA1 == Loc("a.com", "https://a.com/1")
LocA2 == Loc("a.com", "https://a.com/2")
LocB1 == Loc("b.com", "https://b.com/1")

\* the same host over another scheme
LocA1Http == Loc("a.com", "http://a.com/1")

Locations == {LocA1, LocA2, LocB1}

\* window.location.origin: the href up to the path.  indexedDB.open() of a
\* script that runs in the page opens the database of that name of the
\* page's origin.
Origin(loc) ==
  LET href == loc.href
      slashes == {i \in 1..Len(href) : SubSeq(href, i, i) = "/"}
      path == CHOOSE i \in slashes : Cardinality({j \in slashes : j < i}) = 2
  IN SubSeq(href, 1, path - 1)

Origins == {Origin(loc) : loc \in Locations \cup {LocA1Http}}

getCurrentDomain(loc) == loc.hostname

getCurrentUrl(loc) == loc.href

\* ------------------------------------------------------------------- store

\* The object stores are functions from the keys present to the rows.
\* highlights: keyPath [domain, contentHash]; highlighted_urls: keyPath url.

CacheKey(domain, contentHash) == <<domain, contentHash>>

\* variant: a key that has a row keeps it
PutIfAbsent(store, key, row) ==
  [k \in DOMAIN store \cup {key} |-> IF k \in DOMAIN store THEN store[k] ELSE row]

\* IDBObjectStore.put(row) on the key the key path reads off the row
Put(store, key, row) == [k \in DOMAIN store \cup {key} |-> IF k = key THEN row ELSE store[k]]

Delete(store, keys) == [k \in DOMAIN store \ keys |-> store[k]]

Reverse(seq) == [i \in 1..Len(seq) |-> seq[Len(seq) + 1 - i]]

\* variant: the keypoints are stored in reverse order
saveToCacheReversed(store, domain, contentHash, keypoints, t) ==
  Put(store, CacheKey(domain, contentHash),
      [domain |-> domain, contentHash |-> contentHash,
       keypoints |-> Reverse(keypoints), timestamp |-> t])

\* saveToCache: store.put({domain, contentHash, keypoints, timestamp: Date.now()})
saveToCache(store, domain, contentHash, keypoints, t) ==
  Put(store, CacheKey(domain, contentHash),
      [domain |-> domain, contentHash |-> contentHash,
       keypoints |-> keypoints, timestamp |-> t])

\* variant: a row aged exactly CACHE_EXPIRATION still counts as fresh
NotExpiredInclusive(timestamp, t) == t - timestamp <= CACHE_EXPIRATION

\* the test of getFromCache's onsuccess on a row that exists
NotExpired(timestamp, t) == t - timestamp < CACHE_EXPIRATION

\* variant: the key is looked up with its two parts swapped
getFromCacheSwapped(store, domain, contentHash, t) ==
  LET key == CacheKey(contentHash, domain) IN
  IF key \in DOMAIN store /\ t - store[key].timestamp < CACHE_EXPIRATION
    THEN [found |-> TRUE, keypoints |-> store[key].keypoints]
    ELSE [found |-> FALSE, keypoints |-> <<>>]

\* getFromCache: store.get([domain, contentHash]); the keypoints of a row that
\* exists and has not expired, else null.
getFromCache(store, domain, contentHash, t) ==
  LET key == CacheKey(domain, contentHash) IN
  IF key \in DOMAIN store /\ NotExpired(store[key].timestamp, t)
    THEN [found |-> TRUE, keypoints |-> store[key].keypoints]
    ELSE [found |-> FALSE, keypoints |-> <<>>]

\* variant: the marker is never written
saveHighlightedUrlDropped(store, url, t) == store

\* saveHighlightedUrl: store.put({url, timestamp: Date.now()})
saveHighlightedUrl(store, url, t) == Put(store, url, [url |-> url, timestamp |-> t])

\* hasUrlBeenHighlighted: resolve(!!result)
hasUrlBeenHighlighted(store, url) == url \in DOMAIN store

\* variant: the row is put whatever `enabled` is
setDomainAutoHighlightAlways(store, domain, enabled, t) ==
  Put(store, domain, [domain |-> domain, timestamp |-> t])

\* setDomainAutoHighlight(enabled): store.put({domain, timestamp}) or
\* store.delete(domain)
setDomainAutoHighlight(store, domain, enabled, t) ==
  IF enabled THEN Put(store, domain, [domain |-> domain, timestamp |-> t])
  ELSE Delete(store, {domain})

\* variant: only a row younger than CACHE_EXPIRATION counts
isDomainAutoHighlightEnabledFresh(store, domain, t) ==
  domain \in DOMAIN store /\ NotExpired(store[domain].timestamp, t)

\* isDomainAutoHighlightEnabled(): !!result of store.get(domain)
isDomainAutoHighlightEnabled(store, domain, t) == domain \in DOMAIN store

\* variant: the open range below the bound
InRangeOpen(timestamp, expirationTime) == timestamp < expirationTime

\* IDBKeyRange.upperBound(expirationTime): the closed range up to the bound
InRange(timestamp, expirationTime) == timestamp <= expirationTime

\* variant: the cursor runs over IDBKeyRange.lowerBound(expirationTime)
SweepStoreLower(store, expirationTime) ==
  Delete(store, {k \in DOMAIN store : store[k].timestamp >= expirationTime})

\* one cursor pass of clearExpiredCache over the timestamp index of a store
SweepStore(store, expirationTime) ==
  Delete(store, {k \in DOMAIN store : InRange(store[k].timestamp, expirationTime)})

\* ------------------------------------------------------ selecting keypoints

\* keypoints.filter(...) reads .length of every element: null throws.
FilterThrows(keypoints) == \E i \in 1..Len(keypoints) : keypoints[i].type = "null"

\* keypoint.length > 0 && text.includes(keypoint)
Eligible(text, kp) == Len(kp.chars) > 0 /\ Includes(text, kp.chars)

RECURSIVE Filter(_, _)
Filter(text, keypoints) ==
  IF keypoints = <<>> THEN <<>>
  ELSE (IF Eligible(text, Head(keypoints)) THEN <<Head(keypoints).chars>> ELSE <<>>)
         \o Filter(text, Tail(keypoints))

\* Array.prototype.sort is stable: insert each phrase after the phrases that
\* are at least as long.
RECURSIVE InsertDesc(_, _)
InsertDesc(sorted, k) ==
  IF sorted = <<>> THEN <<k>>
  ELSE IF Len(Head(sorted)) >= Len(k) THEN <<Head(sorted)>> \o InsertDesc(Tail(sorted), k)
  ELSE <<k>> \o sorted

RECURSIVE SortDesc(_)
SortDesc(ks) ==
  IF ks = <<>> THEN <<>>
  ELSE InsertDesc(SortDesc(SubSeq(ks, 1, Len(ks) - 1)), ks[Len(ks)])

Slice(ks, n) == SubSeq(ks, 1, IF Len(ks) < n THEN Len(ks) ELSE n)

\* variant: the first phrases of the reply, unsorted
limitedKeypointsFirst(text, keypoints) == Slice(Filter(text, keypoints), MAX_KEYPOINTS)

\* filteredKeypoints.sort((a, b) => b.length - a.length).slice(0, 5)
limitedKeypoints(text, keypoints) == Slice(SortDesc(Filter(text, keypoints)), MAX_KEYPOINTS)

\* ------------------------------------------------------------------ markup

\* content.js:1
HIGHLIGHT_CLASS == "intelliread-highlight"

\* the highlight styles of the options page
Styles == {"background", "underline", "dashed"}

\* What the platform gives for el.innerHTML of a text node: & < > are escaped.
EscapeChar(c) ==
  CASE c = "&" -> "&amp;" [] c = "<" -> "&lt;" [] c = ">" -> "&gt;" [] OTHER -> c

\* the least position of a set of positions
First(hits) == CHOOSE i \in hits : \A j \in hits : i <= j

RECURSIVE SerializeFrom(_, _)
SerializeFrom(text, from) ==
  LET hits == {i \in from..Len(text) : EscapeChar(SubSeq(text, i, i)) # SubSeq(text, i, i)}
  IN IF hits = {} THEN SubSeq(text, from, Len(text))
     ELSE SubSeq(text, from, First(hits) - 1)
            \o EscapeChar(SubSeq(text, First(hits), First(hits)))
            \o SerializeFrom(text, First(hits) + 1)

Serialize(text) == SerializeFrom(text, 1)

\* the canonical form of a character under the regular expression flag i
Canonical(c) ==
  CASE c = "A" -> "a" []
    c = "B" -> "b" []
    c = "C" -> "c" []
    c = "D" -> "d" []
    c = "E" -> "e" []
    c = "F" -> "f" []
    c = "G" -> "g" []
    c = "H" -> "h" []
    c = "I" -> "i" []
    c = "J" -> "j" []
    c = "K" -> "k" []
    c = "L" -> "l" []
    c = "M" -> "m" []
    c = "N" -> "n" []
    c = "O" -> "o" []
    c = "P" -> "p" []
    c = "Q" -> "q" []
    c = "R" -> "r" []
    c = "S" -> "s" []
    c = "T" -> "t" []
    c = "U" -> "u" []
    c = "V" -> "v" []
    c = "W" -> "w" []
    c = "X" -> "x" []
    c = "Y" -> "y" []
    c = "Z" -> "z" []
    OTHER -> c

\* whether the regular expression of the keypoint, flags gi, matches at i
MatchesAt(html, keypoint, i) ==
  /\ i + Len(keypoint) - 1 <= Len(html)
  /\ \A j \in 1..Len(keypoint) :
       LET a == SubSeq(html, i + j - 1, i + j - 1)
           b == SubSeq(keypoint, j, j)
       IN a = b \/ Canonical(a) = Canonical(b)

\* the replacement function of processElement: the span around one match
Wrapper(match, s) ==
  LET span == "<span class=\"" \o HIGHLIGHT_CLASS \o " style-" \o s.highlightStyle \o "\""
      style == IF s.highlightStyle = "background"
                 THEN "style=\"background-color: " \o s.highlightColor \o "\""
                 ELSE "style=\"border-bottom-color: " \o s.highlightColor \o "\""
  IN span \o " " \o style \o ">" \o match \o "</span>"

\* el.innerHTML.replace(regex, match => ...) from position `from` on: every
\* match, left to right, none overlapping
RECURSIVE ReplaceFrom(_, _, _, _, _)
ReplaceFrom(html, keypoint, s, from, hits) ==
  IF hits = {} THEN SubSeq(html, from, Len(html))
  ELSE LET m == First(hits)
           next == m + Len(keypoint)
       IN SubSeq(html, from, m - 1)
            \o Wrapper(SubSeq(html, m, next - 1), s)
            \o ReplaceFrom(html, keypoint, s, next, {i \in hits : i >= next})

\* el.innerHTML.replace(regex, match => ...)
Replace(html, keypoint, s) ==
  ReplaceFrom(html, keypoint, s, 1, {i \in 1..Len(html) : MatchesAt(html, keypoint, i)})

\* for (const keypoint of limitedKeypoints) el.innerHTML = el.innerHTML.replace(...)
RECURSIVE Highlight(_, _, _)
Highlight(html, keypoints, s) ==
  IF keypoints = <<>> THEN html
  ELSE Highlight(Replace(html, Head(keypoints), s), Tail(keypoints), s)

\* The opening tag of a highlighted span as the platform serializes it, and
\* the same tag after classList.remove(HIGHLIGHT_CLASS) and
\* style.backgroundColor = '': the class is gone from the list, a
\* background-color declaration is gone from the style attribute, any other
\* declaration stays.
MarkedTag(style, color) ==
  "<span class=\"" \o HIGHLIGHT_CLASS \o " style-" \o style \o "\" style=\""
    \o (IF style = "background" THEN "background-color: " ELSE "border-bottom-color: ")
    \o color \o "\">"

ClearedTag(style, color) ==
  "<span class=\"style-" \o style \o "\" style=\""
    \o (IF style = "background" THEN "" ELSE "border-bottom-color: " \o color)
    \o "\">"

\* the highlight colours of the model: the default of the options page
Colors == {"#ADD8E6"}

StartsWith(html, i, tag) ==
  i + Len(tag) - 1 <= Len(html) /\ SubSeq(html, i, i + Len(tag) - 1) = tag

\* the styles and colours of the marked opening tags that start at i
TagsAt(html, i) ==
  IF StartsWith(html, i, "<span class=\"" \o HIGHLIGHT_CLASS)
    THEN {t \in Styles \X Colors : StartsWith(html, i, MarkedTag(t[1], t[2]))}
    ELSE {}

\* document.querySelectorAll(`.${HIGHLIGHT_CLASS}`), as positions in innerHTML
MarkedAt(html) == {i \in 1..Len(html) : TagsAt(html, i) # {}}

RECURSIVE ClearFrom(_, _, _)
ClearFrom(html, from, hits) ==
  IF hits = {} THEN SubSeq(html, from, Len(html))
  ELSE LET m == First(hits)
           tag == CHOOSE t \in TagsAt(html, m) : TRUE
           next == m + Len(MarkedTag(tag[1], tag[2]))
       IN SubSeq(html, from, m - 1)
            \o ClearedTag(tag[1], tag[2])
            \o ClearFrom(html, next, {i \in hits : i >= next})

\* variant: only the first element found is cleared
clearHighlightsFirst(html) ==
  IF MarkedAt(html) = {} THEN html
  ELSE ClearFrom(html, 1, {First(MarkedAt(html))})

\* clearHighlights() on the elements of one paragraph, read back as innerHTML:
\* every element of class HIGHLIGHT_CLASS loses the class and its background
\* colour.
clearHighlights(html) == ClearFrom(html, 1, MarkedAt(html))

\* ------------------------------------------------------ parseModelResponse

\* The grave accent of a fenced code block.  A TLA+ string cannot hold that
\* character, so the replies of the model write a circumflex for it; no reply
\* of the model holds a circumflex of its own.
Backtick == "^"

Fence == Backtick \o Backtick \o Backtick

\* s[i - 1], the empty string outside of s
At(s, i) == IF i \in 1..Len(s) THEN SubSeq(s, i, i) ELSE ""

\* \s
IsSpace(c) == c \in {" ", "\n", "\t", "\r"}

\* the first position from i on that holds no white space: where a greedy \s*
\* that starts at i ends
SkipSpace(s, i) == First({k \in i..(Len(s) + 1) : k = Len(s) + 1 \/ ~IsSpace(At(s, k))})

FencesAt(s) == {i \in 1..Len(s) : StartsWith(s, i, Fence)}

\* variant: the tag json is not part of the opening fence
AfterOpenUntagged(s, i) == i + Len(Fence)

\* ```(?:json)? matched at i: the position after it
AfterOpen(s, i) ==
  IF StartsWith(s, i + Len(Fence), "json") THEN i + Len(Fence) + 4 ELSE i + Len(Fence)

\* the positions where /```(?:json)?\s*([\s\S]*?)\s*```/ matches: an opening
\* fence with a fence after what the greedy (?:json)?\s* takes
FencedAt(s) ==
  {i \in FencesAt(s) : \E c \in FencesAt(s) : c >= SkipSpace(s, AfterOpen(s, i))}

\* markdownMatch[1]: the lazy group of the leftmost match ends where \s*```
\* first matches, at the white space before the first fence after its start
Captured(s) ==
  LET i == First(FencedAt(s))
      start == SkipSpace(s, AfterOpen(s, i))
      c == First({x \in FencesAt(s) : x >= start})
      end == First({k \in start..c : \A m \in k..(c - 1) : IsSpace(At(s, m))})
  IN SubSeq(s, start, end - 1)

cleanedResponse(s) ==
  IF FencedAt(s) # {} /\ Captured(s) # "" THEN Captured(s) ELSE s

\* JSON.parse on the JSON texts of the model: a string without escape, null,
\* true, false, an integer, or an array or object of those.  A value parsed
\* at a position: whether there is one, the position after it, the value.
NoValue == [ok |-> FALSE, pos |-> 0, val |-> JsonNull]

Value(pos, val) == [ok |-> TRUE, pos |-> pos, val |-> val]

\* a number, true or false: a value without length
JsonOther == [type |-> "other", chars |-> ""]

IsDigit(c) == c \in {"0", "1", "2", "3", "4", "5", "6", "7", "8", "9"}

StringAt(s, i) ==
  LET closes == {k \in (i + 1)..Len(s) : At(s, k) = "\""} IN
  IF closes = {} THEN NoValue
  ELSE LET close == First(closes) IN
       IF \E k \in (i + 1)..(close - 1) : At(s, k) \in {"\n", "\t", "\r", "\\"}
         THEN NoValue
         ELSE Value(close + 1, Str(SubSeq(s, i + 1, close - 1)))

NumberAt(s, i) ==
  LET from == IF At(s, i) = "-" THEN i + 1 ELSE i
      end == First({k \in from..(Len(s) + 1) : k = Len(s) + 1 \/ ~IsDigit(At(s, k))})
  IN IF end = from \/ (At(s, from) = "0" /\ end > from + 1) THEN NoValue
     ELSE Value(end, JsonOther)

ScalarAt(s, i) ==
  CASE At(s, i) = "\"" -> StringAt(s, i)
    [] StartsWith(s, i, "null") -> Value(i + 4, JsonNull)
    [] StartsWith(s, i, "true") -> Value(i + 4, JsonOther)
    [] StartsWith(s, i, "false") -> Value(i + 5, JsonOther)
    [] OTHER -> NumberAt(s, i)

\* the elements of an array from the element at i to the closing bracket
RECURSIVE ItemsFrom(_, _)
ItemsFrom(s, i) ==
  LET v == ScalarAt(s, i)
      k == SkipSpace(s, v.pos)
  IN IF ~v.ok THEN NoValue
     ELSE IF At(s, k) = "]" THEN Value(k + 1, <<v.val>>)
     ELSE IF At(s, k) = "," THEN
       LET rest == ItemsFrom(s, SkipSpace(s, k + 1)) IN
       IF rest.ok THEN Value(rest.pos, <<v.val>> \o rest.val) ELSE NoValue
     ELSE NoValue

\* the members of an object from the key at i to the closing brace
RECURSIVE MembersFrom(_, _)
MembersFrom(s, i) ==
  LET key == IF At(s, i) = "\"" THEN StringAt(s, i) ELSE NoValue
      colon == SkipSpace(s, key.pos)
      v == ScalarAt(s, SkipSpace(s, colon + 1))
      k == SkipSpace(s, v.pos)
  IN IF ~key.ok \/ At(s, colon) # ":" \/ ~v.ok THEN NoValue
     ELSE IF At(s, k) = "}" THEN Value(k + 1, JsonOther)
     ELSE IF At(s, k) = "," THEN MembersFrom(s, SkipSpace(s, k + 1))
     ELSE NoValue

\* a JSON value at i: its value is the sequence of its elements if it is an
\* array
ValueAt(s, i) ==
  CASE At(s, i) = "[" ->
         LET j == SkipSpace(s, i + 1) IN
         IF At(s, j) = "]" THEN Value(j + 1, <<>>) ELSE ItemsFrom(s, j)
    [] At(s, i) = "{" ->
         LET j == SkipSpace(s, i + 1) IN
         IF At(s, j) = "}" THEN Value(j + 1, JsonOther) ELSE MembersFrom(s, j)
    [] OTHER -> ScalarAt(s, i)

\* JSON.parse(text): whether it returns, whether the value is an array, and
\* the elements of the array
JSONparse(text) ==
  LET i == SkipSpace(text, 1)
      v == ValueAt(text, i)
  IN IF i > Len(text) \/ ~v.ok \/ SkipSpace(text, v.pos) <= Len(text)
       THEN [ok |-> FALSE, isArray |-> FALSE, items |-> <<>>]
       ELSE [ok |-> TRUE, isArray |-> At(text, i) = "[",
             items |-> IF At(text, i) = "[" THEN v.val ELSE <<>>]

\* where /```(?:json)?\s*|\s*```/ matches, and where the match ends: a fence
\* with its tag and the white space after it, or white space with the fence
\* after it
MarkerAt(s, i) ==
  \/ StartsWith(s, i, Fence)
  \/ IsSpace(At(s, i)) /\ StartsWith(s, SkipSpace(s, i), Fence)

MarkerEnd(s, i) ==
  IF StartsWith(s, i, Fence) THEN SkipSpace(s, AfterOpen(s, i))
  ELSE SkipSpace(s, i) + Len(Fence)

\* .replace(/```(?:json)?\s*|\s*```/g, '')
RECURSIVE RemoveMarkers(_, _)
RemoveMarkers(s, from) ==
  LET hits == {i \in from..Len(s) : MarkerAt(s, i)} IN
  IF hits = {} THEN SubSeq(s, from, Len(s))
  ELSE SubSeq(s, from, First(hits) - 1) \o RemoveMarkers(s, MarkerEnd(s, First(hits)))

\* .split('\n')
Split(s) ==
  LET breaks == {i \in 1..Len(s) : At(s, i) = "\n"}
      Break(k) == IF k = 0 THEN 0
                  ELSE IF k > Cardinality(breaks) THEN Len(s) + 1
                  ELSE CHOOSE i \in breaks : Cardinality({j \in breaks : j < i}) = k - 1
  IN [k \in 1..(Cardinality(breaks) + 1) |-> SubSeq(s, Break(k - 1) + 1, Break(k) - 1)]

\* line.trim()
Trim(line) ==
  LET inked == {i \in 1..Len(line) : ~IsSpace(At(line, i))} IN
  IF inked = {} THEN ""
  ELSE SubSeq(line, First(inked), CHOOSE i \in inked : \A j \in inked : j <= i)

\* variant: only a line that is nothing but a bracket is dropped
KeptLineLoose(line) == Len(line) > 0 /\ line # "[" /\ line # "]"

\* line.length > 0 && !line.startsWith('[') && !line.startsWith(']')
KeptLine(line) == Len(line) > 0 /\ ~StartsWith(line, 1, "[") /\ ~StartsWith(line, 1, "]")

RECURSIVE KeptLines(_)
KeptLines(lines) ==
  IF lines = <<>> THEN <<>>
  ELSE (IF KeptLine(Trim(Head(lines))) THEN <<Str(Trim(Head(lines)))>> ELSE <<>>)
         \o KeptLines(Tail(lines))

\* the catch of parseModelResponse: the lines of the reply
SplitLines(modelResponse) == KeptLines(Split(RemoveMarkers(modelResponse, 1)))

\* parseModelResponse(modelResponse)
parseModelResponse(modelResponse) ==
  LET keypoints == JSONparse(cleanedResponse(modelResponse)) IN
  IF ~keypoints.ok THEN SplitLines(modelResponse)
  ELSE IF keypoints.isArray THEN keypoints.items
  ELSE <<>>

\* ----------------------------------------------------------- analyzeWithAI

\* What the fetch of analyzeWithAI comes to: it rejects, the status is not
\* 2xx, the body has no choices[0].message.content, or it has the content.
Response(kind, content) == [kind |-> kind, content |-> content]

NetworkError == Response("networkError", "")

NotOk == Response("notOk", "")

NoContent == Response("noContent", "")

Content(content) == Response("content", content)

\* no response yet
NoResponse == Response("none", "")

\* analyzeWithAI(content, settings): every throw is caught and answered []
analyzeWithAI(response) ==
  IF response.kind = "content" /\ response.content # ""
    THEN parseModelResponse(response.content)
    ELSE <<>>

\* ------------------------------------------------------------------- state

VARIABLES
  now,         \* Date.now()
  cache,       \* object store highlights
  urls,        \* object store highlighted_urls
  storeUp,     \* whether IndexedDB requests succeed at present
  sweeps,      \* the clearExpiredCache calls under way
  lastPut,     \* history: per cache key, the last put of a page of the origin
               \* that succeeded and whether the key had a row before it
  location,    \* window.location of the page in the tab
  paras,       \* textContent of the page's <p> elements, in document order
  dom,         \* per <p> element, its innerHTML
  settings,    \* what getSettings answers
  pass,        \* the analyzePageContent calls of the page, by what started them
  loads,       \* page loads so far, after the first
  elsewhere,   \* per origin other than the page's, its database
  autoDomains, \* object store auto_highlight_domains
  lastToggle,  \* history: per domain, the last setDomainAutoHighlight of a page of
               \* the origin that succeeded,
               \* the page load during which it was made and whether the
               \* domain was enabled before it
  check,       \* checkAndAutoHighlight of the page
  request      \* the message of the popup the page has not yet answered

vars ==
  <<now, cache, urls, storeUp, sweeps, lastPut, location, paras, dom, settings, pass, loads,
    elsewhere, autoDomains, lastToggle, check, request>>

auto == <<autoDomains, lastToggle, check, request>>

store == <<cache, urls, lastPut, storeUp>>

page == <<location, paras, settings, loads, elsewhere>>

\* a database as indexedDB.open() creates it (onupgradeneeded): the object
\* stores without rows; with them the history of the puts and of the toggles
\* of its pages
Database(highlights, highlightedUrls, domains, puts, toggles) ==
  [cache |-> highlights, urls |-> highlightedUrls, autoDomains |-> domains,
   lastPut |-> puts, lastToggle |-> toggles]

NewDatabase == Database(<<>>, <<>>, <<>>, <<>>, <<>>)

\* --------------------------------------------------------- processElement

\* A per-element task: where processElement stands, the keypoints it holds,
\* and (history) where they came from, whether analyzeWithAI was called and
\* what its fetch came to.
Task(pc, keypoints, source, called) ==
  [pc |-> pc, keypoints |-> keypoints, source |-> source, aiCalled |-> called,
   response |-> NoResponse]

IdleTask == Task("idle", <<>>, "none", FALSE)

\* variant: a text of exactly MIN_LENGTH characters is skipped too
StartTaskInclusive(text) ==
  IF Len(text) <= MIN_LENGTH THEN Task("done", <<>>, "none", FALSE)
  ELSE Task("lookup", <<>>, "none", FALSE)

\* processElement up to its first await: a short text returns at once, any
\* other awaits IntelliReadCache.checkCache(text).
StartTask(text) ==
  IF Len(text) < MIN_LENGTH THEN Task("done", <<>>, "none", FALSE)
  ELSE Task("lookup", <<>>, "none", FALSE)

InFlight(task) == task.pc \in {"lookup", "ai", "save1", "save2"}

Settled(task) == task.pc \in {"done", "failed"}

\* The tail of processElement, from `if (keypoints.length === 0) return;`:
\* the task's final state and the phrases it wraps in el.innerHTML.
FinishTask(task, text) ==
  IF task.keypoints = <<>> THEN [task EXCEPT !.pc = "done"]
  ELSE IF FilterThrows(task.keypoints) THEN [task EXCEPT !.pc = "failed"]
  ELSE [task EXCEPT !.pc = "done"]

Wrapped(task, text) ==
  IF task.keypoints = <<>> \/ FilterThrows(task.keypoints) THEN <<>>
  ELSE limitedKeypoints(text, task.keypoints)

\* --------------------------------------------- processWithConcurrencyLimit

\* variant: the pool counts as full one task late
PoolFullLate(executing) == Cardinality(executing) > LIMIT

\* if (executing.size >= limit)
PoolFull(executing) == Cardinality(executing) >= LIMIT

\* What starts analyzePageContent: the analyzeContent message, or the
\* auto-highlight check of the page load.
PassIds == {"message", "auto"}

NoPass ==
  [pc |-> "none", next |-> 1, executing |-> {}, task |-> <<>>, result |-> "none", run |-> 1]

Return(ps, result) == [ps EXCEPT !.pc = "returned", !.result = result]

\* The `clean` callbacks of the settled promises have run.
Cleaned(ps) ==
  [ps EXCEPT !.executing = {j \in @ : ~Settled(ps.task[j])}]

\* return Promise.all(results), awaited by analyzePageContent: fulfilled once
\* every task is, rejected as soon as one task is.
JoinAll(ps) ==
  IF \A j \in DOMAIN ps.task : ps.task[j].pc = "done" THEN Return(Cleaned(ps), "ok")
  ELSE [Cleaned(ps) EXCEPT !.pc = "all"]

\* The for loop from the top of an iteration to its next suspension.  A task
\* of a short text is a promise already fulfilled: it stays in `executing`
\* until the loop awaits, and a race over a set that holds one is won by it.
RECURSIVE Loop(_, _)
Loop(ps, texts) ==
  IF ps.next > Len(texts) THEN JoinAll(ps)
  ELSE LET i == ps.next
           started == [ps EXCEPT !.next = i + 1,
                                 !.task[i] = StartTask(texts[i]),
                                 !.executing = @ \cup {i}]
       IN IF PoolFull(started.executing)
            THEN IF \E j \in started.executing : Settled(started.task[j])
                   THEN Loop(Cleaned(started), texts)
                   ELSE [started EXCEPT !.pc = "race"]
            ELSE Loop(started, texts)

\* variant: the rejection of a task is not propagated to the awaiting caller
SettleIgnoringFailure(ps, texts) ==
  CASE ps.pc = "race" -> Loop(Cleaned(ps), texts)
    [] ps.pc = "all" -> JoinAll(ps)
    [] OTHER -> Cleaned(ps)

\* Task i has just settled (its record is already final): the microtasks that
\* follow.  An awaited race takes the outcome of the task; a rejected race or
\* a rejected Promise.all is caught by analyzePageContent, which returns
\* {success: false}; the other tasks keep running.
Settle(ps, texts) ==
  LET failed == \E j \in ps.executing : ps.task[j].pc = "failed" IN
  CASE ps.pc = "race" ->
         IF failed THEN Return(Cleaned(ps), "error") ELSE Loop(Cleaned(ps), texts)
    [] ps.pc = "all" ->
         IF failed THEN Return(Cleaned(ps), "error") ELSE JoinAll(ps)
    [] OTHER -> Cleaned(ps)

\* The pass after task i took the step that left it as `task`.
Step(ps, i, task, texts) ==
  LET ps1 == [ps EXCEPT !.task[i] = task] IN
  IF Settled(task) THEN Settle(ps1, texts) ELSE ps1

\* ---------------------------------------------------------------- settings

\* what chrome.storage.sync answers to getSettings
Settings(apiUrl, apiKey, modelName, style) ==
  [apiUrl |-> apiUrl, apiKey |-> apiKey, modelName |-> modelName,
   highlightColor |-> "#ADD8E6", highlightStyle |-> style]

Complete(style) == Settings("https://api.example/v1", "sk-1", "model-1", style)

NoApiUrl == Settings("", "sk-1", "model-1", "background")

NoApiKey == Settings("https://api.example/v1", "", "model-1", "background")

NoModelName == Settings("https://api.example/v1", "sk-1", "", "background")

\* variant: the model name is not looked at
ConfiguredWithoutModel(s) == ~(s.apiUrl = "" \/ s.apiKey = "")

\* the negation of `!settings.apiUrl || !settings.apiKey || !settings.modelName`
Configured(s) == ~(s.apiUrl = "" \/ s.apiKey = "" \/ s.modelName = "")

\* ------------------------------------------------------ checkAndAutoHighlight

\* checkAndAutoHighlight as DOMContentLoaded calls it when cache.js has
\* mounted its functions: awaiting hasUrlBeenHighlighted().  urlRead and
\* domainRead are history: whether the store answered the lookup; urlReadAt is
\* the time of the lookup of the URL; polls counts the calls that found no
\* cache API, evaluations the times the condition of the `if` was evaluated.
NewCheck ==
  [pc |-> "url", wasUrlHighlighted |-> FALSE, isDomainAutoHighlightEnabled |-> FALSE,
   urlRead |-> FALSE, domainRead |-> FALSE, urlReadAt |-> 0,
   mounted |-> TRUE, polls |-> 0, evaluations |-> 0]

\* checkAndAutoHighlight about to be called (by DOMContentLoaded or by its
\* timer) while window.IntelliReadCache lacks its functions
Waiting == [NewCheck EXCEPT !.pc = "poll", !.mounted = FALSE]

\* no message of the popup is waiting for its response
NoRequest == [action |-> "none", enabled |-> FALSE]

Request(action, enabled) == [action |-> action, enabled |-> enabled]

\* variant: the opt-in of the domain is not looked at
ShouldApplyUrlOnly(wasUrlHighlighted, enabled) == wasUrlHighlighted

\* if (wasUrlHighlighted || isDomainAutoHighlightEnabled)
ShouldApply(wasUrlHighlighted, enabled) == wasUrlHighlighted \/ enabled

\* ------------------------------------------------------------------ inputs

\* pages of the pipeline specification: one paragraph long enough to be
\* analysed, with or without a short one before it
Layouts == {<<Text29, Text30>>, <<TextLong>>}

\* the page of the scheduler specification: MaxParas paragraphs long enough
\* to be analysed, more than LIMIT, and a short one among the first LIMIT
LongPage == [i \in 1..(MaxParas + 1) |-> IF i = 3 THEN Text29 ELSE TextLong]

\* the text of a JSON array of strings, as JSON.stringify writes it
Quoted(k) == "\"" \o k \o "\""

RECURSIVE Joined(_)
Joined(ks) ==
  IF ks = <<>> THEN ""
  ELSE IF Len(ks) = 1 THEN Quoted(ks[1])
  ELSE Quoted(ks[1]) \o "," \o Joined(Tail(ks))

ArrayText(ks) == "[" \o Joined(ks) \o "]"

\* what the remote service answers: a failure (analyzeWithAI returns []),
\* phrases, or an array that holds a null
Replies == {NetworkError, Content(ArrayText(<<KeyA, KeyB>>)), Content("[null]")}

SchedReplies == {Content(ArrayText(<<KeyA>>)), Content("[null]")}

\* ------------------------------------------------------------------- Init

InitWith(locs, layouts, configs) ==
  /\ now = 0
  /\ cache = <<>>
  /\ urls = <<>>
  /\ storeUp = TRUE
  /\ sweeps = {}
  /\ lastPut = <<>>
  /\ elsewhere = [o \in Origins |-> NewDatabase]
  /\ location \in locs
  /\ paras \in layouts
  /\ dom = [i \in 1..Len(paras) |-> Serialize(paras[i])]
  /\ settings \in configs
  /\ pass = [p \in PassIds |-> NoPass]
  /\ loads = 0
  /\ autoDomains = <<>>
  /\ lastToggle = <<>>
  /\ check = NewCheck
  /\ request = NoRequest

Init == InitWith({LocA1}, Layouts, {Complete("background"), NoApiKey})

InitSched == InitWith({LocA1}, {LongPage}, {Complete("background")})

\* ---------------------------------------------------------------- actions

\* IndexedDB starts to fail (openDatabase rejects, or the request's onerror
\* fires), and recovers.
StoreFails ==
  /\ storeUp
  /\ storeUp' = FALSE
  /\ UNCHANGED <<now, cache, urls, lastPut, sweeps, page, dom, pass, auto>>

StoreRecovers ==
  /\ ~storeUp
  /\ storeUp' = TRUE
  /\ UNCHANGED <<now, cache, urls, lastPut, sweeps, page, dom, pass, auto>>

\* The clock advances.
Tick ==
  /\ now < MaxTime
  /\ now' = now + 1
  /\ UNCHANGED <<store, sweeps, page, dom, pass, auto>>

\* variant: every page opens the same database, whatever its origin
PageLoadShared(loc, layout) ==
  /\ loads < MaxLoads
  /\ loads' = loads + 1
  /\ location' = loc
  /\ paras' = layout
  /\ dom' = [i \in 1..Len(layout) |-> Serialize(layout[i])]
  /\ pass' = [p \in PassIds |-> NoPass]
  /\ sweeps' = {}
  /\ check' = NewCheck
  /\ request' = NoRequest
  /\ lastPut' = IF Origin(loc) = Origin(location) THEN lastPut
                ELSE elsewhere[Origin(loc)].lastPut
  /\ lastToggle' = IF Origin(loc) = Origin(location) THEN lastToggle
                   ELSE elsewhere[Origin(loc)].lastToggle
  /\ elsewhere' = IF Origin(loc) = Origin(location) THEN elsewhere
                  ELSE [elsewhere EXCEPT
                          ![Origin(location)] = Database(<<>>, <<>>, <<>>, lastPut, lastToggle),
                          ![Origin(loc)] = NewDatabase]
  /\ UNCHANGED <<now, cache, urls, storeUp, settings, autoDomains>>

\* The tab loads a page: a new document and a new script context, whose
\* openDatabase() opens the database of the page's origin.
PageLoad(loc, layout) ==
  /\ loads < MaxLoads
  /\ loads' = loads + 1
  /\ location' = loc
  /\ paras' = layout
  /\ dom' = [i \in 1..Len(layout) |-> Serialize(layout[i])]
  /\ pass' = [p \in PassIds |-> NoPass]
  /\ sweeps' = {}
  /\ check' = NewCheck
  /\ request' = NoRequest
  /\ IF Origin(loc) = Origin(location)
       THEN UNCHANGED <<cache, urls, autoDomains, lastPut, lastToggle, elsewhere>>
       ELSE /\ cache' = elsewhere[Origin(loc)].cache
            /\ urls' = elsewhere[Origin(loc)].urls
            /\ autoDomains' = elsewhere[Origin(loc)].autoDomains
            /\ lastPut' = elsewhere[Origin(loc)].lastPut
            /\ lastToggle' = elsewhere[Origin(loc)].lastToggle
            /\ elsewhere' = [elsewhere EXCEPT
                 ![Origin(location)] =
                    Database(cache, urls, autoDomains, lastPut, lastToggle),
                 ![Origin(loc)] = NewDatabase]
  /\ UNCHANGED <<now, storeUp, settings>>

\* onMessage 'analyzeContent': analyzePageContent() up to `await getSettings()`.
AnalyzeContent(p) ==
  /\ pass[p].pc = "none"
  /\ pass' = [pass EXCEPT ![p].pc = "settings"]
  /\ UNCHANGED <<now, store, sweeps, page, dom, auto>>

\* getSettings answers: the two early returns, else the scheduler's loop up to
\* its first suspension.
SettingsDone(p) ==
  /\ pass[p].pc = "settings"
  /\ pass' = [pass EXCEPT ![p] =
       IF ~Configured(settings) THEN Return(@, "noconfig")
       ELSE IF Len(paras) = 0 THEN Return(@, "nocontent")
       ELSE Loop([@ EXCEPT !.task = [i \in 1..Len(paras) |-> IdleTask]], paras)]
  /\ UNCHANGED <<now, store, sweeps, page, dom, auto>>

\* variant: a lookup that finds an expired row deletes it
LookupDoneEvicting(p, i) ==
  /\ i \in DOMAIN pass[p].task
  /\ pass[p].task[i].pc = "lookup"
  /\ LET domain == getCurrentDomain(location)
         contentHash == calculateHash(paras[i])
         got == getFromCache(cache, domain, contentHash, now)
         task == pass[p].task[i]
         hit == [task EXCEPT !.keypoints = got.keypoints, !.source = "cache"]
     IN IF storeUp /\ got.found
          THEN /\ dom' = [dom EXCEPT ![i] = Highlight(@, Wrapped(hit, paras[i]), settings)]
               /\ pass' = [pass EXCEPT ![p] = Step(@, i, FinishTask(hit, paras[i]), paras)]
               /\ cache' = cache
          ELSE /\ dom' = dom
               /\ pass' = [pass EXCEPT ![p].task[i] = [task EXCEPT !.pc = "ai", !.aiCalled = TRUE]]
               /\ cache' = IF storeUp THEN Delete(cache, {CacheKey(domain, contentHash)})
                           ELSE cache
  /\ UNCHANGED <<now, urls, lastPut, storeUp, sweeps, page, auto>>

\* checkCache(text) answers (null when the store fails).  On a hit the rest of
\* processElement runs; on a miss analyzeWithAI is called.
LookupDone(p, i) ==
  /\ i \in DOMAIN pass[p].task
  /\ pass[p].task[i].pc = "lookup"
  /\ LET got == getFromCache(cache, getCurrentDomain(location), calculateHash(paras[i]), now)
         task == pass[p].task[i]
         hit == [task EXCEPT !.keypoints = got.keypoints, !.source = "cache"]
     IN IF storeUp /\ got.found
          THEN /\ dom' = [dom EXCEPT ![i] = Highlight(@, Wrapped(hit, paras[i]), settings)]
               /\ pass' = [pass EXCEPT ![p] = Step(@, i, FinishTask(hit, paras[i]), paras)]
          ELSE /\ dom' = dom
               /\ pass' = [pass EXCEPT ![p].task[i] = [task EXCEPT !.pc = "ai", !.aiCalled = TRUE]]
  /\ UNCHANGED <<now, store, sweeps, page, auto>>

\* analyzeWithAI(text, settings) answers.  A non-empty list goes to
\* cacheAnalysisResult; an empty one ends the task.
AiDone(p, i, response) ==
  /\ i \in DOMAIN pass[p].task
  /\ pass[p].task[i].pc = "ai"
  /\ LET reply == analyzeWithAI(response)
         got == [pass[p].task[i] EXCEPT
                   !.keypoints = reply, !.source = "ai", !.response = response]
     IN pass' = [pass EXCEPT ![p] =
          IF Len(reply) > 0 THEN Step(@, i, [got EXCEPT !.pc = "save1"], paras)
          ELSE Step(@, i, FinishTask(got, paras[i]), paras)]
  /\ UNCHANGED <<now, store, sweeps, page, dom, auto>>

\* variant: a failure of saveToCache rejects processElement
SaveCacheDoneFatal(p, i) ==
  /\ i \in DOMAIN pass[p].task
  /\ pass[p].task[i].pc = "save1"
  /\ LET task == pass[p].task[i]
         domain == getCurrentDomain(location)
         contentHash == calculateHash(paras[i])
     IN IF storeUp
          THEN /\ cache' = saveToCache(cache, domain, contentHash, task.keypoints, now)
               /\ lastPut' = Put(lastPut, CacheKey(domain, contentHash),
                                 [keypoints |-> task.keypoints, timestamp |-> now,
                                  over |-> CacheKey(domain, contentHash) \in DOMAIN cache])
               /\ pass' = [pass EXCEPT ![p].task[i].pc = "save2"]
          ELSE /\ UNCHANGED <<cache, lastPut>>
               /\ pass' = [pass EXCEPT ![p] = Step(@, i, [task EXCEPT !.pc = "failed"], paras)]
  /\ UNCHANGED <<now, urls, storeUp, sweeps, page, dom, auto>>

\* cacheAnalysisResult: saveToCache settles.  A failure is caught and ends
\* cacheAnalysisResult; processElement goes on to highlight.
SaveCacheDone(p, i) ==
  /\ i \in DOMAIN pass[p].task
  /\ pass[p].task[i].pc = "save1"
  /\ LET task == pass[p].task[i]
         domain == getCurrentDomain(location)
         contentHash == calculateHash(paras[i])
     IN IF storeUp
          THEN /\ cache' = saveToCache(cache, domain, contentHash, task.keypoints, now)
               /\ lastPut' = Put(lastPut, CacheKey(domain, contentHash),
                                 [keypoints |-> task.keypoints, timestamp |-> now,
                                  over |-> CacheKey(domain, contentHash) \in DOMAIN cache])
               /\ pass' = [pass EXCEPT ![p].task[i].pc = "save2"]
               /\ dom' = dom
          ELSE /\ UNCHANGED <<cache, lastPut>>
               /\ dom' = [dom EXCEPT ![i] = Highlight(@, Wrapped(task, paras[i]), settings)]
               /\ pass' = [pass EXCEPT ![p] = Step(@, i, FinishTask(task, paras[i]), paras)]
  /\ UNCHANGED <<now, urls, storeUp, sweeps, page, auto>>

\* cacheAnalysisResult: saveHighlightedUrl settles; on success the sweep is
\* started and not awaited.  Then processElement highlights.
SaveUrlDone(p, i) ==
  /\ i \in DOMAIN pass[p].task
  /\ pass[p].task[i].pc = "save2"
  /\ LET task == pass[p].task[i]
     IN /\ dom' = [dom EXCEPT ![i] = Highlight(@, Wrapped(task, paras[i]), settings)]
        /\ pass' = [pass EXCEPT ![p] = Step(@, i, FinishTask(task, paras[i]), paras)]
  /\ IF storeUp
       THEN /\ urls' = saveHighlightedUrl(urls, getCurrentUrl(location), now)
            /\ sweeps' = sweeps \cup {[phase |-> "open", expirationTime |-> 0]}
       ELSE UNCHANGED <<urls, sweeps>>
  /\ UNCHANGED <<now, cache, lastPut, storeUp, page, auto>>

\* onMessage 'cleanupCache': the intelliread-cleanup-cache event calls
\* clearExpiredCache(), which awaits openDatabase().  The background script
\* sends the message once a day: it arrives while no sweep is under way.
CleanupCache ==
  /\ sweeps = {}
  /\ sweeps' = sweeps \cup {[phase |-> "open", expirationTime |-> 0]}
  /\ UNCHANGED <<now, store, page, dom, pass, auto>>

\* clearExpiredCache: the database opens, expirationTime is read off the clock
\* and the cursor transaction over highlights runs.  A failure ends the sweep.
SweepHighlights ==
  /\ \E s \in sweeps :
       /\ s.phase = "open"
       /\ IF storeUp
            THEN /\ cache' = SweepStore(cache, now - CACHE_EXPIRATION)
                 /\ sweeps' = (sweeps \ {s}) \cup
                      {[phase |-> "urls", expirationTime |-> now - CACHE_EXPIRATION]}
            ELSE /\ cache' = cache
                 /\ sweeps' = sweeps \ {s}
  /\ UNCHANGED <<now, urls, lastPut, storeUp, page, dom, pass, auto>>

\* clearExpiredCache: the cursor transaction over highlighted_urls runs.  A
\* failure ends the sweep.
SweepUrls ==
  /\ \E s \in sweeps :
       /\ s.phase = "urls"
       /\ urls' = IF storeUp THEN SweepStore(urls, s.expirationTime) ELSE urls
       /\ sweeps' = sweeps \ {s}
  /\ UNCHANGED <<now, cache, lastPut, storeUp, page, dom, pass, auto>>

\* analyzePageContent() is called again on the same document, once the tasks of
\* the earlier call have all settled.
AnalyzeAgain(p) ==
  /\ pass[p].pc = "returned"
  /\ \A i \in DOMAIN pass[p].task : ~InFlight(pass[p].task[i])
  /\ pass[p].run < MaxRuns
  /\ pass' = [pass EXCEPT ![p] = [NoPass EXCEPT !.pc = "settings", !.run = pass[p].run + 1]]
  /\ UNCHANGED <<now, store, sweeps, page, dom, auto>>

\* variant: a marker that has reached CACHE_EXPIRATION is not reported
CheckUrlDoneFresh ==
  /\ check.pc = "url"
  /\ \E rejected \in BOOLEAN :
       /\ rejected => ~storeUp
       /\ check' = IF rejected
            THEN [check EXCEPT !.pc = "done"]
            ELSE [check EXCEPT
                    !.pc = "domain",
                    !.wasUrlHighlighted =
                       /\ storeUp
                       /\ hasUrlBeenHighlighted(urls, getCurrentUrl(location))
                       /\ NotExpired(urls[getCurrentUrl(location)].timestamp, now),
                    !.urlRead = storeUp,
                    !.urlReadAt = now]
  /\ UNCHANGED <<now, store, sweeps, page, dom, pass, autoDomains, lastToggle, request>>

\* checkAndAutoHighlight: hasUrlBeenHighlighted() settles.  When the store
\* fails, either openDatabase() rejects, which the function catches to answer
\* false, or the get request fails, which rejects the promise the function
\* returned: the await throws and the catch of checkAndAutoHighlight ends the
\* check.  Otherwise isDomainAutoHighlightEnabled() is awaited next.
CheckUrlDone ==
  /\ check.pc = "url"
  /\ \E rejected \in BOOLEAN :
       /\ rejected => ~storeUp
       /\ check' = IF rejected
            THEN [check EXCEPT !.pc = "done"]
            ELSE [check EXCEPT
                    !.pc = "domain",
                    !.wasUrlHighlighted =
                       storeUp /\ hasUrlBeenHighlighted(urls, getCurrentUrl(location)),
                    !.urlRead = storeUp,
                    !.urlReadAt = now]
  /\ UNCHANGED <<now, store, sweeps, page, dom, pass, autoDomains, lastToggle, request>>

\* checkAndAutoHighlight: isDomainAutoHighlightEnabled() settles, with the
\* same two outcomes of a store failure; analyzePageContent() is called if
\* either answer is true.
CheckDomainDone ==
  /\ check.pc = "domain"
  /\ \E rejected \in BOOLEAN :
       /\ rejected => ~storeUp
       /\ LET enabled ==
                /\ storeUp
                /\ isDomainAutoHighlightEnabled(autoDomains, getCurrentDomain(location), now)
          IN IF rejected
               THEN /\ check' = [check EXCEPT !.pc = "done"]
                    /\ pass' = pass
               ELSE /\ check' = [check EXCEPT !.pc = "done",
                                               !.isDomainAutoHighlightEnabled = enabled,
                                               !.domainRead = storeUp,
                                               !.evaluations = @ + 1]
                    /\ pass' = IF ShouldApply(check.wasUrlHighlighted, enabled)
                                 THEN [pass EXCEPT !["auto"].pc = "settings"]
                                 ELSE pass
  /\ UNCHANGED <<now, store, sweeps, page, dom, autoDomains, lastToggle, request>>

\* cache.js mounts its functions on window.IntelliReadCache.
CacheMounts ==
  /\ ~check.mounted
  /\ check' = [check EXCEPT !.mounted = TRUE]
  /\ UNCHANGED <<now, store, sweeps, page, dom, pass, autoDomains, lastToggle, request>>

\* checkAndAutoHighlight is entered: without the cache API it sets its timer
\* again and returns, with it it awaits hasUrlBeenHighlighted().
Poll ==
  /\ check.pc = "poll"
  /\ IF check.mounted
       THEN check' = [check EXCEPT !.pc = "url"]
       ELSE /\ check.polls < MaxPolls
            /\ check' = [check EXCEPT !.polls = @ + 1]
  /\ UNCHANGED <<now, store, sweeps, page, dom, pass, autoDomains, lastToggle, request>>

\* The popup sends a message to the page and waits for the response.
SendMessage(action, enabled) ==
  /\ request = NoRequest
  /\ request' = Request(action, enabled)
  /\ UNCHANGED <<now, store, sweeps, page, dom, pass, autoDomains, lastToggle, check>>

\* onMessage 'clearHighlights'
ClearHighlights ==
  /\ request.action = "clearHighlights"
  /\ dom' = [i \in DOMAIN dom |-> clearHighlights(dom[i])]
  /\ request' = NoRequest
  /\ UNCHANGED <<now, store, sweeps, page, pass, autoDomains, lastToggle, check>>

\* onMessage 'clearDomainCache': window.IntelliReadCache has no
\* clearDomainCache, so the handler answers {success: false, error: 'Cache
\* system not ready'} and does nothing else.
ClearDomainCache ==
  /\ request.action = "clearDomainCache"
  /\ request' = NoRequest
  /\ UNCHANGED <<now, store, sweeps, page, dom, pass, autoDomains, lastToggle, check>>

\* onMessage 'setDomainAutoHighlight': the store request settles; a failure
\* is answered with {success: false}.
SetDomainAutoHighlight ==
  /\ request.action = "setDomainAutoHighlight"
  /\ request' = NoRequest
  /\ IF storeUp
       THEN /\ autoDomains' = setDomainAutoHighlight(
                 autoDomains, getCurrentDomain(location), request.enabled, now)
            /\ lastToggle' = Put(lastToggle, getCurrentDomain(location),
                                  [enabled |-> request.enabled, load |-> loads,
                                   was |-> getCurrentDomain(location) \in DOMAIN autoDomains])
       ELSE UNCHANGED <<autoDomains, lastToggle>>
  /\ UNCHANGED <<now, store, sweeps, page, dom, pass, check>>

\* ---------------------------------------------------------- specifications

Elements == 1..(MaxParas + 1)

\* What every specification of the pipeline has: the clock, navigation, the
\* analyzeContent pass and the sweep.
NextReliable ==
  \/ Tick
  \/ \E loc \in {LocA1, LocA2}, layout \in Layouts : PageLoad(loc, layout)
  \/ AnalyzeContent("message")
  \/ SettingsDone("message")
  \/ \E i \in Elements : LookupDone("message", i)
  \/ \E i \in Elements, response \in Replies : AiDone("message", i, response)
  \/ \E i \in Elements : SaveCacheDone("message", i)
  \/ \E i \in Elements : SaveUrlDone("message", i)
  \/ CleanupCache
  \/ SweepHighlights
  \/ SweepUrls

\* The pipeline while every IndexedDB request succeeds.
SpecReliable == Init /\ [][NextReliable]_vars

\* The pipeline with store failures.
Next ==
  \/ NextReliable
  \/ StoreFails
  \/ StoreRecovers

Spec == Init /\ [][Next]_vars

\* One pass over the long page, every store request succeeding, while the
\* clock stands and no sweep makes progress.
NextSched ==
  \/ AnalyzeContent("message")
  \/ SettingsDone("message")
  \/ \E i \in Elements : LookupDone("message", i)
  \/ \E i \in Elements, response \in SchedReplies : AiDone("message", i, response)
  \/ \E i \in Elements : SaveCacheDone("message", i)
  \/ \E i \in Elements : SaveUrlDone("message", i)

SpecSched == InitSched /\ [][NextSched]_vars

\* The pages of the termination specification: one paragraph more than the
\* pool holds, a short one among the first LIMIT; and short paragraphs only,
\* every task settled when it is created.
FairPage == [i \in 1..(LIMIT + 1) |-> IF i = 3 THEN Text29 ELSE TextLong]

ShortPage == [i \in 1..(LIMIT + 1) |-> Text29]

\* its replies: a fetch that fails, and a reply whose keypoints make the task
\* fail after its write-back
FairReplies == {NetworkError, Content("[null]")}

InitFair == InitWith({LocA1}, {FairPage, ShortPage}, {Complete("background")})

\* What is pending in a pass: the call of getSettings, or a store request or
\* the fetch of a task.  One of them completes in each step of a pass.
Completes ==
  \/ SettingsDone("message")
  \/ \E i \in Elements : LookupDone("message", i)
  \/ \E i \in Elements, response \in FairReplies : AiDone("message", i, response)
  \/ \E i \in Elements : SaveCacheDone("message", i)
  \/ \E i \in Elements : SaveUrlDone("message", i)

NextFair ==
  \/ AnalyzeContent("message")
  \/ Completes

\* One pass when what is pending eventually completes: while getSettings, a
\* store request or a fetch is pending, one of them completes.  This is the
\* least that "every call and every store operation eventually completes"
\* gives.
SpecFair == InitFair /\ [][NextFair]_vars /\ WF_vars(Completes)

\* The pages of the markup specification: a paragraph where a phrase occurs
\* MaxRepeats times, one with a character that innerHTML escapes, a plain one,
\* a page of short paragraphs only and a page without paragraph.
TextMany == Rep(KeyA \o " ", MaxRepeats) \o Rep("m", MIN_LENGTH)

KeyAmp == "Amp"

TextAmp == KeyAmp \o " & " \o Rep("q", MIN_LENGTH - 5)

DomLayouts == {<<TextMany>>, <<TextAmp>>, <<TextLong>>, <<Text29, Text29>>, <<>>}

DomSettings == {Complete(style) : style \in Styles} \cup {NoApiUrl, NoApiKey, NoModelName}

\* replies with a phrase of each page, and one with an empty phrase and a
\* phrase no page contains
DomReplies ==
  {Content(ArrayText(<<KeyA>>)), Content(ArrayText(<<KeyAmp>>)),
   Content(ArrayText(<<"", "absent", KeyB>>))}

InitDom == InitWith({LocA1}, DomLayouts, DomSettings)

\* One document, analysed any number of times and cleared any number of
\* times, while the clock stands and every store request succeeds.
NextDom ==
  \/ AnalyzeContent("message")
  \/ AnalyzeAgain("message")
  \/ SettingsDone("message")
  \/ \E i \in Elements : LookupDone("message", i)
  \/ \E i \in Elements, response \in DomReplies : AiDone("message", i, response)
  \/ \E i \in Elements : SaveCacheDone("message", i)
  \/ \E i \in Elements : SaveUrlDone("message", i)
  \/ \E action \in {"clearHighlights", "clearDomainCache"} : SendMessage(action, FALSE)
  \/ ClearHighlights
  \/ ClearDomainCache

SpecDom == InitDom /\ [][NextDom]_vars

\* The store as an earlier visit of https://a.com/1 may have left it: with or
\* without the marker of that URL.
InitAuto ==
  /\ now = 0
  /\ cache = <<>>
  /\ urls \in {<<>>, saveHighlightedUrl(<<>>, getCurrentUrl(LocA1), 0)}
  /\ storeUp = TRUE
  /\ sweeps = {}
  /\ lastPut = <<>>
  /\ elsewhere = [o \in Origins |-> NewDatabase]
  /\ location = LocA1
  /\ paras = <<TextLong>>
  /\ dom = [i \in 1..Len(paras) |-> Serialize(paras[i])]
  /\ settings = Complete("background")
  /\ pass = [p \in PassIds |-> NoPass]
  /\ loads = 0
  /\ autoDomains = <<>>
  /\ lastToggle = <<>>
  /\ check = NewCheck
  /\ request = NoRequest

\* Page loads with the auto-highlight check up to the call of
\* analyzePageContent, the opt-in of the popup, the sweep and store failures.
NextAuto ==
  \/ Tick
  \/ \E loc \in Locations : PageLoad(loc, <<TextLong>>)
  \/ CheckUrlDone
  \/ CheckDomainDone
  \/ \E enabled \in BOOLEAN : SendMessage("setDomainAutoHighlight", enabled)
  \/ SetDomainAutoHighlight
  \/ CleanupCache
  \/ SweepHighlights
  \/ SweepUrls
  \/ StoreFails
  \/ StoreRecovers

SpecAuto == InitAuto /\ [][NextAuto]_vars

\* The replies of the client specification.  A reply wrapped in a fenced
\* code block, with or without tag:
Fenced(tag, body) == Fence \o tag \o "\n" \o body \o "\n" \o Fence

Wrappings(body) == {body, Fenced("json", body), Fenced("", body)}

\* arrays of strings: none, one, two in either order, and one whose string
\* holds a fence
StringLists == {<<>>, <<KeyA>>, <<KeyA, KeyB>>, <<KeyB, KeyA>>, <<KeyA \o Fence>>}

ArrayReplies == UNION {Wrappings(ArrayText(ks)) : ks \in StringLists}

\* valid JSON that is not an array
OtherJsonReplies == UNION {Wrappings(t) : t \in {"{}", "{\"a\": 1}", Quoted(KeyA), "42", "null"}}

\* replies that are neither JSON nor hold a line to keep
UnparseableReplies == {"[", "[" \o Quoted(KeyA) \o ",]", Fence \o "json" \o Fence, " \n "}

\* replies of lines, not JSON: two lines, lines with blanks around and
\* between them, lines between lines of one bracket, and a line that goes on
\* after a leading bracket
LineReplies ==
  {KeyA \o "\n" \o KeyB \o "\n",
   " " \o KeyA \o " \n\n\t" \o KeyB,
   "[\n" \o KeyA \o "\n]",
   "[" \o KeyA \o "] x\n" \o KeyB}

\* fetches that fail or bring no content
FailedFetches == {NetworkError, NotOk, NoContent, Content("")}

ClientResponses ==
  FailedFetches
    \cup {Content(t) : t \in ArrayReplies \cup OtherJsonReplies \cup UnparseableReplies}
    \cup {Content(t) : t \in LineReplies}

InitClient == InitWith({LocA1}, {<<TextLong>>, <<Text29, TextLong>>}, {Complete("background")})

\* Passes over one document, with every kind of answer of the remote service,
\* while the clock stands and every store request succeeds.
NextClient ==
  \/ AnalyzeContent("message")
  \/ AnalyzeAgain("message")
  \/ SettingsDone("message")
  \/ \E i \in Elements : LookupDone("message", i)
  \/ \E i \in Elements, response \in ClientResponses : AiDone("message", i, response)
  \/ \E i \in Elements : SaveCacheDone("message", i)
  \/ \E i \in Elements : SaveUrlDone("message", i)

SpecClient == InitClient /\ [][NextClient]_vars

\* The fetches that never settle: the calls of analyzeWithAI for these
\* elements of the page, fewer than LIMIT.
HungCalls == {1, 4}

\* replies of the other calls: a keypoint that the paragraph does not hold, and
\* keypoints that make the task fail after its write-back
HangReplies == {Content(ArrayText(<<KeyAmp>>)), Content("[null]")}

InitHang == InitWith({LocA1}, {FairPage}, {Complete("background")})

\* what is pending in the pass and completes: as Completes, without the
\* fetches that hang
CompletesOthers ==
  \/ SettingsDone("message")
  \/ \E i \in Elements : LookupDone("message", i)
  \/ \E i \in Elements \ HungCalls, response \in HangReplies :
       AiDone("message", i, response)
  \/ \E i \in Elements : SaveCacheDone("message", i)
  \/ \E i \in Elements : SaveUrlDone("message", i)

NextHang ==
  \/ AnalyzeContent("message")
  \/ CompletesOthers

\* One pass in which the fetches of HungCalls never settle and whatever else
\* is pending eventually completes.
SpecHang == InitHang /\ [][NextHang]_vars /\ WF_vars(CompletesOthers)

\* A page that an earlier visit highlighted, or not: the store holds the
\* marker of its URL or is empty.
InitTwice ==
  /\ now = 0
  /\ cache = <<>>
  /\ urls \in {<<>>, saveHighlightedUrl(<<>>, getCurrentUrl(LocA1), 0)}
  /\ storeUp = TRUE
  /\ sweeps = {}
  /\ lastPut = <<>>
  /\ elsewhere = [o \in Origins |-> NewDatabase]
  /\ location = LocA1
  /\ paras = FairPage
  /\ dom = [i \in 1..Len(paras) |-> Serialize(paras[i])]
  /\ settings = Complete("background")
  /\ pass = [p \in PassIds |-> NoPass]
  /\ loads = 0
  /\ autoDomains = <<>>
  /\ lastToggle = <<>>
  /\ check = NewCheck
  /\ request = NoRequest

\* The auto-highlight check of the page load and the analyzeContent message
\* of the popup, each calling analyzePageContent() whatever the other does;
\* the fetches fail.
NextTwice ==
  \/ CheckUrlDone
  \/ CheckDomainDone
  \/ AnalyzeContent("message")
  \/ \E p \in PassIds : SettingsDone(p)
  \/ \E p \in PassIds, i \in Elements : LookupDone(p, i)
  \/ \E p \in PassIds, i \in Elements : AiDone(p, i, NetworkError)

SpecTwice == InitTwice /\ [][NextTwice]_vars

\* Replies whose list is written to the cache: keypoints of the paragraph, and
\* a list that holds null.
AgainReplies == {Content(ArrayText(<<KeyA>>)), Content("[null]")}

InitAgain ==
  InitWith({LocA1}, {<<TextLong>>, <<TextLong, TextMany>>, <<TextMany, Text29, TextLong>>},
           {Complete("background")})

\* One document analysed MaxRuns times, each pass after the earlier one has
\* returned and its tasks have settled, while every store request succeeds.
NextAgain ==
  \/ AnalyzeContent("message")
  \/ AnalyzeAgain("message")
  \/ SettingsDone("message")
  \/ \E i \in Elements : LookupDone("message", i)
  \/ \E i \in Elements, response \in AgainReplies : AiDone("message", i, response)
  \/ \E i \in Elements : SaveCacheDone("message", i)
  \/ \E i \in Elements : SaveUrlDone("message", i)

SpecAgain == InitAgain /\ [][NextAgain]_vars

\* A page load where checkAndAutoHighlight may run before cache.js has
\* mounted its functions, on a store with or without the marker of the URL
\* and with or without the opt-in of the domain.
InitPoll ==
  /\ now = 0
  /\ cache = <<>>
  /\ urls \in {<<>>, saveHighlightedUrl(<<>>, getCurrentUrl(LocA1), 0)}
  /\ storeUp = TRUE
  /\ sweeps = {}
  /\ lastPut = <<>>
  /\ elsewhere = [o \in Origins |-> NewDatabase]
  /\ location = LocA1
  /\ paras = <<TextLong>>
  /\ dom = [i \in 1..Len(paras) |-> Serialize(paras[i])]
  /\ settings = Complete("background")
  /\ pass = [p \in PassIds |-> NoPass]
  /\ loads = 0
  /\ autoDomains \in {<<>>, setDomainAutoHighlight(<<>>, getCurrentDomain(LocA1), TRUE, 0)}
  /\ lastToggle = <<>>
  /\ check \in {NewCheck, Waiting}
  /\ request = NoRequest

\* what is pending in the check and completes: its timer, the lookup of the
\* URL, the lookup of the domain
Evaluates ==
  \/ Poll
  \/ CheckUrlDone
  \/ CheckDomainDone

NextPoll ==
  \/ CacheMounts
  \/ Evaluates
  \/ SettingsDone("auto")
  \/ StoreFails
  \/ StoreRecovers

\* One page load: timers fire and store requests settle.
SpecPoll == InitPoll /\ [][NextPoll]_vars /\ WF_vars(Evaluates)

\* Replies with more phrases than are applied: phrases of the paragraph of
\* different lengths, some of equal length, one twice, with an empty phrase
\* and phrases the paragraph does not hold among them; in ascending, in
\* descending and in mixed order of length.
SelectReplies ==
  {Content(ArrayText(ks)) :
     ks \in {<<"k", "ke", KeyA, "m", "mm", "mmm", KeyA \o " " \o KeyA>>,
             <<KeyA \o " " \o KeyA, "mmm", KeyA, "mm", "ke", "m", "k">>,
             <<"m", "", KeyA, "absent", "k", "mmmm", "ey", KeyA, KeyB, "mm", "y k">>,
             <<"absent", "", KeyB>>,
             <<"mm", KeyA>>}}

InitSelect == InitWith({LocA1}, {<<TextMany>>, <<TextLong, TextMany>>}, {Complete("background")})

\* Passes over one document with these replies, while the clock stands and
\* every store request succeeds.
NextSelect ==
  \/ AnalyzeContent("message")
  \/ AnalyzeAgain("message")
  \/ SettingsDone("message")
  \/ \E i \in Elements : LookupDone("message", i)
  \/ \E i \in Elements, response \in SelectReplies : AiDone("message", i, response)
  \/ \E i \in Elements : SaveCacheDone("message", i)
  \/ \E i \in Elements : SaveUrlDone("message", i)

SpecSelect == InitSelect /\ [][NextSelect]_vars

\* Pages of three origins with the same paragraph, two of the origins on the
\* same host, while every store request succeeds and no sweep runs.
OriginReplies == {Content(ArrayText(<<KeyA>>)), Content(ArrayText(<<KeyB>>))}

InitOrigins == InitWith({LocA1}, {<<TextLong>>}, {Complete("background")})

NextOrigins ==
  \/ Tick
  \/ \E loc \in Locations \cup {LocA1Http} : PageLoad(loc, <<TextLong>>)
  \/ AnalyzeContent("message")
  \/ SettingsDone("message")
  \/ \E i \in Elements : LookupDone("message", i)
  \/ \E i \in Elements, response \in OriginReplies : AiDone("message", i, response)
  \/ \E i \in Elements : SaveCacheDone("message", i)
  \/ \E i \in Elements : SaveUrlDone("message", i)

SpecOrigins == InitOrigins /\ [][NextOrigins]_vars

\* -------------------------------------------------------------- properties

TaskOf(p, i) == pass[p].task[i]

UnitsOf(p) == DOMAIN pass[p].task

InFlightOf(p) == {i \in UnitsOf(p) : InFlight(TaskOf(p, i))}

AiCallsOf(p) == {i \in UnitsOf(p) : TaskOf(p, i).pc = "ai"}

IdleOf(p) == {i \in UnitsOf(p) : TaskOf(p, i).pc = "idle"}

KeyOf(i) == CacheKey(getCurrentDomain(location), calculateHash(paras[i]))

\* C1: during a pass, in every reachable state at most LIMIT (5) per-element
\* tasks are outstanding, and so at most 5 calls of the Analysis Client, for
\* every completion order.
C1_ConcurrencyBound ==
  \A p \in PassIds :
    /\ Cardinality(InFlightOf(p)) <= LIMIT
    /\ Cardinality(AiCallsOf(p)) <= LIMIT

\* C1 witness: five calls of the Analysis Client are outstanding while an
\* element still waits to be started.
C1_PoolSaturated ==
  /\ Cardinality(AiCallsOf("message")) = LIMIT
  /\ pass["message"].pc = "race"
  /\ IdleOf("message") # {}

\* C2: when the task of one paragraph fails (its keypoints hold a null),
\* analyzePage still returns success and the other paragraphs are all
\* processed.
C2_FailureIsolated ==
  \A p \in PassIds :
    (\E i \in UnitsOf(p) : TaskOf(p, i).pc = "failed")
      => /\ pass[p].pc = "returned" => pass[p].result = "ok"
         /\ pass[p].pc = "returned" /\ InFlightOf(p) = {} => IdleOf(p) = {}

\* C3: the scheduler starts every item: an item waits only while all 5 slots
\* are busy, and is started when a task in flight settles, whether that task
\* succeeded or failed, so that none is left unstarted.
C3_EveryItemStarted ==
  \A p \in PassIds :
    IdleOf(p) # {} /\ pass[p].pc \in {"race", "all", "returned"}
      => Cardinality(InFlightOf(p)) = LIMIT

\* C4: analyzePage returns only after every task of the pass has settled:
\* once it has returned no task of the pass is in flight (and so none writes
\* to the cache or to the document afterwards), also when a task failed.
C4_ReturnsAfterAllSettled ==
  \A p \in PassIds : pass[p].pc = "returned" => InFlightOf(p) = {}

\* The step in which task i of pass p leaves the state `pc` (the page stays).
Leaves(p, i, pc) ==
  /\ i \in UnitsOf(p)
  /\ TaskOf(p, i).pc = pc
  /\ i \in DOMAIN pass'[p].task
  /\ pass'[p].task[i].pc # pc

\* The store holds a row for the text of element i that has not expired.
LiveEntry(i) ==
  /\ KeyOf(i) \in DOMAIN cache
  /\ now - cache[KeyOf(i)].timestamp < CACHE_EXPIRATION

\* The lookup of task i ends the task with the keypoints of the row: no call
\* of the Analysis Client, and the row's keypoints are what is wrapped.
UsesCached(p, i) ==
  LET cached == cache[KeyOf(i)].keypoints
      after == pass'[p].task[i]
  IN /\ Settled(after)
     /\ ~after.aiCalled
     /\ after.source = "cache"
     /\ after.keypoints = cached
     /\ dom'[i] = Highlight(dom[i],
                             IF FilterThrows(cached) THEN <<>>
                             ELSE limitedKeypoints(paras[i], cached),
                             settings)

\* C5 as stated: for every paragraph whose key has a row that has not expired
\* when the lookup runs, the Analysis Client is not invoked and the cached
\* keypoints are the ones used.
C5_HitAvoidsCall ==
  [][\A p \in PassIds : \A i \in UnitsOf(p) :
       Leaves(p, i, "lookup") /\ LiveEntry(i) => UsesCached(p, i)]_vars

\* C5 amended: the same, provided the store request of the lookup succeeds.
C5_HitAvoidsCallWhenRead ==
  [][\A p \in PassIds : \A i \in UnitsOf(p) :
       Leaves(p, i, "lookup") /\ LiveEntry(i) /\ storeUp => UsesCached(p, i)]_vars

\* C5 witness: a paragraph was highlighted from the cache without a call of
\* the Analysis Client.
C5_HighlightedFromCache ==
  \E i \in UnitsOf("message") :
    /\ TaskOf("message", i).pc = "done"
    /\ TaskOf("message", i).source = "cache"
    /\ ~TaskOf("message", i).aiCalled
    /\ dom[i] # Serialize(paras[i])

\* C6: cache round trip: after put(origin, hash(T), K), a get of the same key
\* within the expiration window returns K, the same elements in the same order.
C6_RoundTrip ==
  \A key \in DOMAIN lastPut :
    now - lastPut[key].timestamp < CACHE_EXPIRATION
      => getFromCache(cache, key[1], key[2], now)
           = [found |-> TRUE, keypoints |-> lastPut[key].keypoints]

\* C6 witness: a list of two phrases was put earlier and is still in the window.
C6_PutThenRead ==
  \E key \in DOMAIN lastPut :
    /\ Len(lastPut[key].keypoints) = 2
    /\ lastPut[key].timestamp < now
    /\ now - lastPut[key].timestamp < CACHE_EXPIRATION
    /\ \E i \in UnitsOf("message") :
         KeyOf(i) = key /\ TaskOf("message", i).source = "cache"

\* C7: expiration boundary: get returns the keypoints of a row if and only if
\* now - timestamp < CACHE_EXPIRATION: present one tick before the expiration
\* time or younger, absent at exactly the expiration time and beyond.
C7_ExpirationBoundary ==
  \A key \in DOMAIN cache :
    LET age == now - cache[key].timestamp
        got == getFromCache(cache, key[1], key[2], now)
    IN /\ age <= CACHE_EXPIRATION - 1 => got.found /\ got.keypoints = cache[key].keypoints
       /\ age >= CACHE_EXPIRATION => ~got.found

\* C7 witness: a lookup ran on a row aged exactly CACHE_EXPIRATION and missed.
C7_LookupAtBoundary ==
  \E i \in UnitsOf("message") :
    /\ TaskOf("message", i).pc = "ai"
    /\ KeyOf(i) \in DOMAIN cache
    /\ now - cache[KeyOf(i)].timestamp = CACHE_EXPIRATION

\* C8: a paragraph shorter than MIN_LENGTH (30) is never looked up, never
\* submitted, never cached and never modified; one of exactly 30 characters
\* is processed.
C8_ShortSkipped ==
  /\ \A p \in PassIds : \A i \in UnitsOf(p) :
       Len(paras[i]) < MIN_LENGTH
         => /\ TaskOf(p, i).pc \in {"idle", "done"}
            /\ ~TaskOf(p, i).aiCalled
            /\ TaskOf(p, i).source = "none"
            /\ dom[i] = Serialize(paras[i])
  /\ \A key \in DOMAIN cache, text \in Texts :
       Len(text) < MIN_LENGTH => key[2] # calculateHash(text)
  /\ \A p \in PassIds : \A i \in UnitsOf(p) :
       Len(paras[i]) >= MIN_LENGTH /\ TaskOf(p, i).pc = "done"
         => TaskOf(p, i).source # "none"

\* C8 witness: on one page a paragraph of 29 characters was skipped and one of
\* 30 characters was highlighted.
C8_BothLengths ==
  \E i, j \in UnitsOf("message") :
    /\ Len(paras[i]) = MIN_LENGTH - 1 /\ TaskOf("message", i).pc = "done"
    /\ Len(paras[j]) = MIN_LENGTH /\ TaskOf("message", j).pc = "done"
    /\ dom[j] # Serialize(paras[j])

\* The step in which the unit of element i completes with a list the Analysis
\* Client returned.
CompletesFromAi(p, i) ==
  /\ i \in UnitsOf(p)
  /\ InFlight(TaskOf(p, i))
  /\ i \in DOMAIN pass'[p].task
  /\ Settled(pass'[p].task[i])
  /\ pass'[p].task[i].source = "ai"

\* C9 as stated: after a miss, when the unit completes with a non-empty list
\* the store holds that list under (origin, hash(text)) and the current URL is
\* marked highlighted; with an empty list neither table is changed.
C9_WriteBackOnMiss ==
  [][\A p \in PassIds : \A i \in UnitsOf(p) :
       CompletesFromAi(p, i)
         => IF pass'[p].task[i].keypoints # <<>>
              THEN /\ KeyOf(i) \in DOMAIN cache'
                   /\ cache'[KeyOf(i)].keypoints = pass'[p].task[i].keypoints
                   /\ hasUrlBeenHighlighted(urls', getCurrentUrl(location))
              ELSE UNCHANGED <<cache, urls>>]_vars

\* C9 amended: after a miss with a non-empty list the unit does not complete
\* before it has put the list under (origin, hash(text)) with the current time
\* and then marked the current URL; each write takes effect when its store
\* request succeeds, and a failed put ends the write-back without the marker.
\* With an empty list the unit completes and changes neither table.
C9_WriteBackBeforeCompletion ==
  [][\A p \in PassIds : \A i \in UnitsOf(p) :
       LET after == pass'[p].task[i]
           href == getCurrentUrl(location)
       IN /\ Leaves(p, i, "ai") /\ after.keypoints # <<>>
               => after.pc = "save1"
          /\ Leaves(p, i, "ai") /\ after.keypoints = <<>>
               => Settled(after) /\ UNCHANGED <<cache, urls>>
          /\ Leaves(p, i, "save1") /\ storeUp
               => /\ after.pc = "save2"
                  /\ KeyOf(i) \in DOMAIN cache'
                  /\ cache'[KeyOf(i)].keypoints = TaskOf(p, i).keypoints
                  /\ cache'[KeyOf(i)].timestamp = now
          /\ Leaves(p, i, "save1") /\ ~storeUp
               => Settled(after) /\ UNCHANGED <<cache, urls>>
          /\ Leaves(p, i, "save2")
               => /\ Settled(after)
                  /\ IF storeUp
                       THEN /\ hasUrlBeenHighlighted(urls', href)
                            /\ urls'[href].timestamp = now
                       ELSE urls' = urls]_vars

\* C9 witness: a unit completed with a list from the Analysis Client; the row
\* of its key holds the list and the URL is marked.
C9_WrittenBack ==
  \E i \in UnitsOf("message") :
    /\ TaskOf("message", i).pc = "done"
    /\ TaskOf("message", i).source = "ai"
    /\ TaskOf("message", i).keypoints # <<>>
    /\ KeyOf(i) \in DOMAIN cache
    /\ cache[KeyOf(i)].keypoints = TaskOf("message", i).keypoints
    /\ hasUrlBeenHighlighted(urls, getCurrentUrl(location))

\* C10: when a pass returns success having applied at least one highlight,
\* the current URL is marked highlighted, whether the keypoints came from the
\* Analysis Client or from the cache.
C10_MarkedAfterSuccess ==
  [][\A p \in PassIds :
       /\ pass[p].pc # "returned"
       /\ pass'[p].pc = "returned"
       /\ pass'[p].result = "ok"
       /\ \E i \in DOMAIN dom' : dom'[i] # Serialize(paras'[i])
       => hasUrlBeenHighlighted(urls', getCurrentUrl(location'))]_vars

\* ----------------------------------------------------- reading the markup

\* positions of the opening and of the closing span tags of a paragraph
OpensAt(html) == {i \in 1..Len(html) : StartsWith(html, i, "<span")}

ClosesAt(html) == {i \in 1..Len(html) : StartsWith(html, i, "</span>")}

\* the closing tag of the span that opens at o
MatchingClose(html, o) ==
  First({c \in ClosesAt(html) :
           /\ c > o
           /\ Cardinality({x \in OpensAt(html) : o < x /\ x < c})
                = Cardinality({x \in ClosesAt(html) : o < x /\ x < c})})

\* the end of the tag that starts at i
TagEnd(html, i) == First({j \in i..Len(html) : SubSeq(html, j, j) = ">"})

\* a highlighted span lies inside another highlighted span
Nested(html) ==
  \E o \in MarkedAt(html), m \in MarkedAt(html) : o < m /\ m < MatchingClose(html, o)

\* the character a character reference of a text node stands for
Entities == {<<"&amp;", "&">>, <<"&lt;", "<">>, <<"&gt;", ">">>}

RECURSIVE DecodeFrom(_, _, _)
DecodeFrom(text, from, hits) ==
  IF hits = {} THEN SubSeq(text, from, Len(text))
  ELSE LET m == First(hits)
           e == CHOOSE x \in Entities : StartsWith(text, m, x[1])
           next == m + Len(e[1])
       IN SubSeq(text, from, m - 1) \o e[2] \o DecodeFrom(text, next, {i \in hits : i >= next})

Decode(text) ==
  DecodeFrom(text, 1, {i \in 1..Len(text) : \E x \in Entities : StartsWith(text, i, x[1])})

\* the text content of a piece of markup: its text nodes, tags left out
RECURSIVE TextFrom(_, _, _)
TextFrom(html, from, tags) ==
  IF tags = {} THEN Decode(SubSeq(html, from, Len(html)))
  ELSE LET m == First(tags)
           next == TagEnd(html, m) + 1
       IN Decode(SubSeq(html, from, m - 1)) \o TextFrom(html, next, {i \in tags : i >= next})

TextContent(html) == TextFrom(html, 1, OpensAt(html) \cup ClosesAt(html))

\* the texts inside the highlighted spans of a paragraph
WrappedTexts(html) ==
  {TextContent(SubSeq(html, TagEnd(html, m) + 1, MatchingClose(html, m) - 1)) :
     m \in MarkedAt(html)}

\* C11: when a pass reaches a paragraph that already carries highlights from
\* an earlier pass (none cleared in between), it does not wrap highlighted
\* text again: no highlighted span ends up inside another and the set of
\* wrapped texts stays what it was after one pass.
C11_NoDoubleWrap ==
  [][\A i \in DOMAIN dom :
       /\ pass' # pass
       /\ paras' = paras
       /\ MarkedAt(dom[i]) # {}
       /\ ~Nested(dom[i])
       => /\ ~Nested(dom'[i])
          /\ WrappedTexts(dom'[i]) = WrappedTexts(dom[i])]_vars

\* the number of highlighted spans of a paragraph
CountWrappers(html) == Cardinality(MarkedAt(html))

\* C12: one analysis pass adds at most MAX_KEYPOINTS highlight wrappers to a
\* paragraph, whatever the keypoints list is and however often a keypoint
\* occurs in the text.
C12_CapPerPass ==
  [][\A i \in DOMAIN dom :
       pass' # pass /\ paras' = paras
       => CountWrappers(dom'[i]) <= CountWrappers(dom[i]) + MAX_KEYPOINTS]_vars

\* w occurs in text, character for character
Contains(text, w) ==
  \E i \in 1..(Len(text) + 1) : StartsWith(text, i, w)

\* C13: every piece of text that stands inside a highlighted span is a
\* non-empty verbatim substring of the text of the paragraph it was extracted
\* from, whatever keypoints the service or the cache delivered.
C13_WrappedIsSubstring ==
  \A i \in DOMAIN dom :
    \A w \in WrappedTexts(dom[i]) : w # "" /\ Contains(paras[i], w)

\* C14: once a clearDomainCache request has been answered, a get for any hash
\* that was cached under the page's origin returns absent and no URL of that
\* origin counts as highlighted.
C14_OriginCleared ==
  [][request.action = "clearDomainCache" /\ request' = NoRequest
       => LET domain == getCurrentDomain(location) IN
          /\ \A key \in DOMAIN cache :
               key[1] = domain => ~getFromCache(cache', domain, key[2], now').found
          /\ \A loc \in Locations :
               getCurrentDomain(loc) = domain
                 => ~hasUrlBeenHighlighted(urls', getCurrentUrl(loc))]_vars

\* the auto-highlight check of the current load has called analyzePageContent
AutoApplied == pass["auto"].pc # NoPass.pc

\* C15: on a page load whose two store lookups both succeed, the answer for
\* the URL is whether the exact URL has a marker, and analyzePageContent is
\* called automatically if and only if the URL has a marker or the origin of
\* the page has auto-highlight enabled.
C15_AutoApplyPolicy ==
  [][/\ check.pc = "url" /\ check'.pc = "domain" /\ check'.urlRead
        => check'.wasUrlHighlighted = hasUrlBeenHighlighted(urls, getCurrentUrl(location))
     /\ check.pc = "domain" /\ check'.pc = "done" /\ check.urlRead /\ check'.domainRead
        => /\ ~AutoApplied
           /\ AutoApplied' =
                (\/ check.wasUrlHighlighted
                 \/ getCurrentDomain(location) \in DOMAIN autoDomains)]_vars

\* the origin alone made the check apply the highlights
C15_AppliedForOrigin ==
  /\ check.pc = "done"
  /\ check.urlRead /\ check.domainRead
  /\ ~check.wasUrlHighlighted
  /\ check.isDomainAutoHighlightEnabled
  /\ AutoApplied

\* the last setDomainAutoHighlight that succeeded for the domain enabled it
OptedIn(domain) == domain \in DOMAIN lastToggle /\ lastToggle[domain].enabled

\* the current page was loaded after the last toggle of the domain
LoadedAfterToggle(domain) == domain \in DOMAIN lastToggle /\ lastToggle[domain].load < loads

\* the opt-in of a domain goes away from the database of the origin only by
\* a request that disables it
OptInKept ==
  Origin(location') = Origin(location)
    => \A domain \in DOMAIN autoDomains :
         domain \notin DOMAIN autoDomains'
           => request.action = "setDomainAutoHighlight" /\ ~request.enabled

ToggleSucceeds ==
  /\ request.action = "setDomainAutoHighlight"
  /\ request' = NoRequest
  /\ loads' = loads
  /\ storeUp

\* C17: enabling an origin that is enabled leaves it enabled and the set of
\* enabled origins unchanged, disabling an origin that is not enabled succeeds
\* and leaves the set unchanged, and after every sequence of toggles an origin
\* is enabled exactly if its last toggle enabled it.
C17_ToggleIdempotent ==
  [][/\ ToggleSucceeds
        => LET domain == getCurrentDomain(location) IN
           /\ request.enabled /\ isDomainAutoHighlightEnabled(autoDomains, domain, now)
                => /\ isDomainAutoHighlightEnabled(autoDomains', domain, now')
                   /\ DOMAIN autoDomains' = DOMAIN autoDomains
           /\ ~request.enabled /\ ~isDomainAutoHighlightEnabled(autoDomains, domain, now)
                => DOMAIN autoDomains' = DOMAIN autoDomains
     /\ /\ ~storeUp /\ request.action = "setDomainAutoHighlight"
        /\ request' = NoRequest /\ loads' = loads
        => autoDomains' = autoDomains
     /\ \A domain \in DOMAIN lastToggle' :
          isDomainAutoHighlightEnabled(autoDomains', domain, now') = lastToggle'[domain].enabled]_vars

\* an enabled origin has been enabled again and is enabled
C17_EnabledTwice ==
  \E domain \in DOMAIN lastToggle :
    /\ lastToggle[domain].enabled
    /\ lastToggle[domain].was
    /\ isDomainAutoHighlightEnabled(autoDomains, domain, now)

\* a clearHighlights request is carried out
Clears == request.action = "clearHighlights" /\ request' = NoRequest

\* C18: after clearHighlights a second clearHighlights would leave every
\* paragraph as it is, and clearHighlights on a page without highlights
\* changes nothing.
C18_ClearIdempotent ==
  [][Clears
       => /\ \A i \in DOMAIN dom' : clearHighlights(dom'[i]) = dom'[i]
          /\ (\A i \in DOMAIN dom : MarkedAt(dom[i]) = {}) => dom' = dom]_vars

\* clearHighlights is requested again on a page whose highlights it has cleared
C18_SecondClear ==
  /\ request.action = "clearHighlights"
  /\ \E i \in DOMAIN dom : OpensAt(dom[i]) # {} /\ MarkedAt(dom[i]) = {}

\* the opening tags of a paragraph that carry a style class or an inline
\* colour of the highlighter
StyledAt(html) ==
  {i \in OpensAt(html) :
     \E style \in Styles, color \in Colors :
       LET tag == SubSeq(html, i, TagEnd(html, i)) IN
       \/ Contains(tag, "style-" \o style)
       \/ Contains(tag, "background-color: " \o color)
       \/ Contains(tag, "border-bottom-color: " \o color)}

\* C19: after clearHighlights, whatever the configured style is, no element
\* carries the highlight marker and no span keeps the styling that
\* highlighting added: the style class, the background colour or the
\* bottom-border colour.
C19_ClearRemovesStyling ==
  [][Clears
       => \A i \in DOMAIN dom' : MarkedAt(dom'[i]) = {} /\ StyledAt(dom'[i]) = {}]_vars

\* the configuration lacks the endpoint, the key or the model name
Incomplete ==
  settings.apiUrl = "" \/ settings.apiKey = "" \/ settings.modelName = ""

\* C20: with an incomplete configuration analyzePageContent returns
\* {success: false} before any work: no task is created, so there is no cache
\* lookup and no call of the Analysis Client, nothing is written to the cache
\* or the URL markers, and no paragraph is changed.
C20_RejectsEarly ==
  Incomplete
    => /\ \A p \in PassIds :
            /\ pass[p].task = <<>>
            /\ pass[p].pc = "returned" => pass[p].result = "noconfig"
       /\ cache = <<>>
       /\ urls = <<>>
       /\ \A i \in DOMAIN dom : dom[i] = Serialize(paras[i])

\* a pass has returned for a configuration without model name
C20_ReturnedWithoutModel ==
  /\ settings = NoModelName
  /\ pass["message"].pc = "returned"
  /\ pass["message"].result = "noconfig"
  /\ pass["message"].run = MaxRuns

\* no paragraph of the page is long enough to be analysed
NoEligibleUnit == \A i \in DOMAIN paras : Len(paras[i]) < MIN_LENGTH

\* C21: on a configured page without eligible text unit (no paragraph, or
\* only paragraphs shorter than MIN_LENGTH) a pass returns the no-content
\* failure and has called the Analysis Client for no paragraph.
C21_NoContentRejected ==
  \A p \in PassIds :
    ~Incomplete /\ NoEligibleUnit /\ pass[p].pc = "returned"
      => /\ pass[p].result = "nocontent"
         /\ \A i \in UnitsOf(p) : ~TaskOf(p, i).aiCalled

\* the answers of the remote service that come to nothing: a failed fetch, a
\* body without content, or a reply that neither parses nor holds a line
Fruitless == FailedFetches \cup {Content(t) : t \in UnparseableReplies}

\* C22: when the fetch fails, the status is not 2xx, the body lacks
\* choices[0].message.content or the reply cannot be parsed, analyzeWithAI
\* returns the empty list to processElement, which ends the unit without
\* failure, without highlight and without a write to the cache or the URL
\* markers.
C22_ClientNeverFails ==
  [][\A p \in PassIds : \A i \in UnitsOf(p) :
       /\ TaskOf(p, i).pc = "ai"
       /\ pass'[p].task[i].pc # "ai"
       /\ pass'[p].task[i].response \in Fruitless
       => /\ pass'[p].task[i].keypoints = <<>>
          /\ pass'[p].task[i].pc = "done"
          /\ pass'[p].result # "error"
          /\ dom' = dom
          /\ cache' = cache
          /\ urls' = urls]_vars

\* a pass has returned success although the service answered with a status
\* other than 2xx, and the paragraph is as it was
C22_ReturnedAfterNotOk ==
  \E i \in UnitsOf("message") :
    /\ TaskOf("message", i).response = NotOk
    /\ TaskOf("message", i).pc = "done"
    /\ pass["message"].pc = "returned"
    /\ pass["message"].result = "ok"
    /\ dom[i] = Serialize(paras[i])
    /\ cache = <<>>

\* the phrases processElement wraps for the keypoints a task holds
Applied(task, text) ==
  IF FilterThrows(task.keypoints) THEN <<>> ELSE limitedKeypoints(text, task.keypoints)

\* C23: while the store fails, a cache lookup ends as a miss (the Analysis
\* Client is called), a write-back of the cache entry or of the URL marker
\* that fails is ignored (the unit is highlighted with its keypoints as after
\* a write that succeeds), no unit fails unless the keypoints themselves make
\* the filter throw, and a pass reports failure only for such a unit.
C23_StoreFailureContained ==
  [][~storeUp /\ loads' = loads
       => \A p \in PassIds : \A i \in UnitsOf(p) :
            LET task == TaskOf(p, i)
                after == pass'[p].task[i]
            IN /\ task.pc = "lookup" /\ after.pc # "lookup"
                    => after.pc = "ai" /\ after.aiCalled
               /\ task.pc \in {"save1", "save2"} /\ after.pc # task.pc
                    => /\ Settled(after)
                       /\ dom'[i] = Highlight(dom[i], Applied(task, paras[i]), settings)
               /\ after.pc = "failed" => FilterThrows(after.keypoints)
               /\ pass'[p].result = "error"
                    => \E j \in UnitsOf(p) : pass'[p].task[j].pc = "failed"]_vars

\* a pass has returned success with a paragraph highlighted from the service's
\* keypoints although the write of its cache entry failed
C23_HighlightedWithoutEntry ==
  \E i \in UnitsOf("message") :
    /\ now = 0
    /\ TaskOf("message", i).source = "ai"
    /\ TaskOf("message", i).pc = "done"
    /\ KeyOf(i) \notin DOMAIN cache
    /\ dom[i] # Serialize(paras[i])
    /\ pass["message"].pc = "returned"
    /\ pass["message"].result = "ok"

\* C24: the highlights store holds one row per (domain, contentHash), the row
\* its key path reads off; a put that succeeds, on a new key or on a key that
\* has a row, leaves that key with the keypoints of the put and the time of
\* the put, leaves every other row alone, and lets the task go on.
C24_PutReplaces ==
  [][/\ \A key \in DOMAIN cache' :
          CacheKey(cache'[key].domain, cache'[key].contentHash) = key
     /\ storeUp /\ loads' = loads
          => \A p \in PassIds : \A i \in UnitsOf(p) :
               TaskOf(p, i).pc = "save1" /\ pass'[p].task[i].pc # "save1"
                 => /\ pass'[p].task[i].pc = "save2"
                    /\ DOMAIN cache' = DOMAIN cache \cup {KeyOf(i)}
                    /\ cache'[KeyOf(i)].keypoints = TaskOf(p, i).keypoints
                    /\ cache'[KeyOf(i)].timestamp = now
                    /\ \A key \in DOMAIN cache \ {KeyOf(i)} : cache'[key] = cache[key]]_vars

\* a put at a later time has replaced the row of its key
C24_RowReplaced ==
  \E key \in DOMAIN lastPut :
    /\ lastPut[key].over
    /\ lastPut[key].timestamp > 0
    /\ key \in DOMAIN cache
    /\ cache[key].timestamp = lastPut[key].timestamp
    /\ cache[key].keypoints = lastPut[key].keypoints

\* the rows of a store that are younger than CACHE_EXPIRATION at time t
Young(rows, t) == {k \in DOMAIN rows : t - rows[k].timestamp < CACHE_EXPIRATION}

\* a sweep reads the clock and its transaction on highlights completes
SweepsHighlights ==
  /\ storeUp /\ loads' = loads
  /\ \E s \in sweeps :
       /\ s.phase = "open"
       /\ sweeps' = (sweeps \ {s})
            \cup {[phase |-> "urls", expirationTime |-> now - CACHE_EXPIRATION]}

\* the transaction on highlighted_urls of a sweep that read the clock at t
\* completes
SweepsUrls(t) ==
  /\ storeUp /\ loads' = loads
  /\ \E s \in sweeps :
       /\ s.phase = "urls"
       /\ s.expirationTime = t - CACHE_EXPIRATION
       /\ sweeps' = sweeps \ {s}

\* C25: a sweep that reads the clock at t and completes removes exactly the
\* expired rows: of the rows its transactions find, the cache entries and the
\* URL markers aged CACHE_EXPIRATION or more at t are gone, and those younger
\* at t are present and unchanged.
C25_SweepExact ==
  [][/\ SweepsHighlights
          => /\ DOMAIN cache' = Young(cache, now)
             /\ \A key \in DOMAIN cache' : cache'[key] = cache[key]
     /\ \A t \in 0..MaxTime :
          SweepsUrls(t)
            => /\ DOMAIN urls' = Young(urls, t)
               /\ \A url \in DOMAIN urls' : urls'[url] = urls[url]]_vars

\* a sweep has removed the expired entry of one text and left the first page
\* without marker, and has kept the younger entry and marker of the next page
C25_SweptOldKeptYoung ==
  /\ sweeps = {}
  /\ \E old \in DOMAIN lastPut \ DOMAIN cache :
       now - lastPut[old].timestamp >= CACHE_EXPIRATION
  /\ \E key \in DOMAIN cache : now - cache[key].timestamp < CACHE_EXPIRATION
  /\ getCurrentUrl(LocA1) \notin DOMAIN urls
  /\ \E url \in DOMAIN urls : now - urls[url].timestamp < CACHE_EXPIRATION

\* the cache keys of the origin of the page
KeysHere == {CacheKey(getCurrentDomain(location), calculateHash(text)) : text \in Texts}

\* a sweep is between its transaction on highlights, run at time t, and its
\* transaction on highlighted_urls
SweepUnderWay(t) ==
  \E s \in sweeps : s.phase = "urls" /\ s.expirationTime = t - CACHE_EXPIRATION

\* C26: whatever the interleaving of sweeps with lookups and write-backs:
\* no step removes or changes a row younger than CACHE_EXPIRATION, other than
\* a put that replaces it; a get of any key answers absent or the keypoints of
\* the latest put of that key that completed; a lookup that settles while
\* sweeps are under way and the store answers is a hit with those keypoints or
\* a miss, never a failure; and when a sweep finishes, every entry put or
\* refreshed less than CACHE_EXPIRATION ago is present as it was put.
C26_SweepSafe ==
  [][/\ \A key \in Young(cache, now) :
          /\ key \in DOMAIN cache'
          /\ \/ cache'[key] = cache[key]
             \/ /\ cache'[key].timestamp = now
                /\ cache'[key].keypoints = lastPut'[key].keypoints
     /\ \A key \in KeysHere :
          LET got == getFromCache(cache, key[1], key[2], now)
          IN got.found => key \in DOMAIN lastPut /\ got.keypoints = lastPut[key].keypoints
     /\ storeUp /\ sweeps # {} /\ loads' = loads
          => \A p \in PassIds : \A i \in UnitsOf(p) :
               Leaves(p, i, "lookup")
                 => \/ pass'[p].task[i].pc = "ai"
                    \/ /\ pass'[p].task[i].source = "cache"
                       /\ KeyOf(i) \in Young(cache', now)
                       /\ pass'[p].task[i].keypoints = lastPut[KeyOf(i)].keypoints
     /\ loads' = loads /\ sweeps' # sweeps /\ sweeps' \subseteq sweeps
          => \A key \in DOMAIN lastPut :
               now - lastPut[key].timestamp < CACHE_EXPIRATION
                 => /\ key \in DOMAIN cache'
                    /\ cache'[key].keypoints = lastPut[key].keypoints
                    /\ cache'[key].timestamp = lastPut[key].timestamp]_vars

\* while a sweep that removed an expired entry is between its two
\* transactions, a task has put its entry at the time of the sweep and the
\* entry is in the store
C26_PutDuringSweep ==
  /\ SweepUnderWay(now)
  /\ \E old \in DOMAIN lastPut \ DOMAIN cache :
       now - lastPut[old].timestamp >= CACHE_EXPIRATION
  /\ \E p \in PassIds : \E i \in UnitsOf(p) :
       /\ TaskOf(p, i).pc = "save2"
       /\ KeyOf(i) \in DOMAIN cache
       /\ cache[KeyOf(i)].timestamp = now
       /\ cache[KeyOf(i)].keypoints = TaskOf(p, i).keypoints

\* C27: hasUrlBeenHighlighted looks at no timestamp: a lookup the store
\* answers reports true exactly when the URL has a marker, whatever the age
\* of the marker, and a marker leaves the database of the origin only in the
\* transaction of a sweep for which it has expired.
C27_MarkerIgnoresAge ==
  [][/\ storeUp /\ check.pc = "url" /\ check'.pc = "domain"
          => check'.wasUrlHighlighted = (getCurrentUrl(location) \in DOMAIN urls)
     /\ Origin(location') = Origin(location)
          => \A url \in DOMAIN urls \ DOMAIN urls' :
               \E t \in 0..MaxTime :
                 SweepsUrls(t) /\ t - urls[url].timestamp >= CACHE_EXPIRATION]_vars

\* the check of a page load found the marker of the URL when the marker was
\* older than CACHE_EXPIRATION, and started the pass
C27_OldMarkerFound ==
  /\ check.urlRead
  /\ check.wasUrlHighlighted
  /\ getCurrentUrl(location) \in DOMAIN urls
  /\ check.urlReadAt - urls[getCurrentUrl(location)].timestamp > CACHE_EXPIRATION
  /\ pass["auto"].pc = "settings"

\* a task's put of its cache entry completes
PutsEntry ==
  /\ storeUp /\ loads' = loads
  /\ \E p \in PassIds : \E i \in UnitsOf(p) :
       TaskOf(p, i).pc = "save1" /\ pass'[p].task[i].pc = "save2"

\* C28: a lookup leaves both stores as they are, whether it is a hit, a miss
\* on an absent row or a miss on an expired row; and the highlights store
\* changes only in a step where a put completes or where a sweep runs its
\* transaction on it.
C28_GetReadsOnly ==
  [][/\ \A p \in PassIds : \A i \in UnitsOf(p) :
          Leaves(p, i, "lookup") => cache' = cache /\ urls' = urls
     /\ cache' # cache => PutsEntry \/ SweepsHighlights]_vars

\* a lookup has missed on a row older than CACHE_EXPIRATION, and the row is
\* in the store as it was put
C28_ExpiredRowLeft ==
  \E i \in UnitsOf("message") :
    /\ TaskOf("message", i).pc = "ai"
    /\ KeyOf(i) \in DOMAIN cache
    /\ now - cache[KeyOf(i)].timestamp > CACHE_EXPIRATION
    /\ cache[KeyOf(i)].timestamp = lastPut[KeyOf(i)].timestamp
    /\ cache[KeyOf(i)].keypoints = lastPut[KeyOf(i)].keypoints

\* C29: when getSettings, every call of the Analysis Client and every store
\* request eventually complete, a call of analyzePageContent eventually
\* returns its result, whether tasks are in flight, have settled at once
\* (short texts) or have failed.
C29_PassReturns ==
  pass["message"].pc = "settings" ~> pass["message"].pc = "returned"

\* the pass over more paragraphs than the pool holds, a short one among them,
\* has returned success after every task completed
C29_ReturnedAfterLongPage ==
  /\ pass["message"].pc = "returned"
  /\ pass["message"].result = "ok"
  /\ Len(paras) > LIMIT
  /\ \A i \in DOMAIN paras : i \in UnitsOf("message") /\ TaskOf("message", i).pc = "done"
  /\ \E i \in DOMAIN paras : Len(paras[i]) < MIN_LENGTH
  /\ \E i \in DOMAIN paras : TaskOf("message", i).response = NetworkError

\* the keypoints a JSON array of the strings ks stands for
Strings(ks) == [j \in 1..Len(ks) |-> Str(ks[j])]

\* C30: when the reply of the service is a JSON array of strings, bare or
\* wrapped in a fenced code block with or without the json tag, the task
\* holds exactly those strings in that order; when it is valid JSON that is
\* not an array, the task holds the empty list.
C30_StrictParse ==
  [][\A p \in PassIds : \A i \in UnitsOf(p) :
       Leaves(p, i, "ai") /\ pass'[p].task[i].response.kind = "content"
         => LET after == pass'[p].task[i] IN
            /\ \A ks \in StringLists :
                 after.response.content \in Wrappings(ArrayText(ks))
                   => after.keypoints = Strings(ks)
            /\ after.response.content \in OtherJsonReplies
                 => after.keypoints = <<>>]_vars

\* a line that consists only of a bracket character
OnlyBracket(line) == line \in {"[", "]"}

\* the lines of a text in order, trimmed, without the blank lines and the
\* lines that are only a bracket
RECURSIVE LinesKept(_)
LinesKept(lines) ==
  IF lines = <<>> THEN <<>>
  ELSE (IF Trim(Head(lines)) = "" \/ OnlyBracket(Trim(Head(lines))) THEN <<>>
        ELSE <<Str(Trim(Head(lines)))>>)
         \o LinesKept(Tail(lines))

\* C31: when the reply, its fence stripped, is not valid JSON, the task holds
\* the lines of the reply without its fence markers, in order and trimmed,
\* every line but the blank ones and those that are only a bracket; a line
\* with text after a leading bracket is among them.
C31_FallbackLines ==
  [][\A p \in PassIds : \A i \in UnitsOf(p) :
       LET after == pass'[p].task[i] IN
       /\ Leaves(p, i, "ai")
       /\ after.response.kind = "content"
       /\ after.response.content # ""
       /\ ~JSONparse(cleanedResponse(after.response.content)).ok
       => after.keypoints = LinesKept(Split(RemoveMarkers(after.response.content, 1)))]_vars

Count(ks, x) == Cardinality({j \in DOMAIN ks : ks[j] = x})

\* the phrases of a list of keypoints that are non-empty verbatim substrings
\* of the text, as a set
EligibleIn(text, keypoints) ==
  {keypoints[j].chars : j \in {j \in DOMAIN keypoints :
      /\ keypoints[j].type = "string"
      /\ keypoints[j].chars # ""
      /\ Contains(text, keypoints[j].chars)}}

\* how often a phrase stands in a list of keypoints
CountIn(keypoints, x) ==
  Cardinality({j \in DOMAIN keypoints : keypoints[j] = Str(x)})

\* sel is a selection from the keypoints as C33 describes it
Selected(text, keypoints, sel) ==
  LET eligible == EligibleIn(text, keypoints)
      total == Cardinality({j \in DOMAIN keypoints :
                  keypoints[j].type = "string" /\ keypoints[j].chars \in eligible})
  IN /\ \A j \in DOMAIN sel : sel[j] \in eligible
     /\ \A x \in eligible : Count(sel, x) <= CountIn(keypoints, x)
     /\ Len(sel) = IF total < MAX_KEYPOINTS THEN total ELSE MAX_KEYPOINTS
     /\ \A j \in DOMAIN sel : \A x \in eligible :
          Count(sel, x) < CountIn(keypoints, x) => Len(sel[j]) >= Len(x)
     /\ \A j \in 1..(Len(sel) - 1) : Len(sel[j]) >= Len(sel[j + 1])

\* C33: when a task settles with keypoints, from the service or from the
\* cache, the phrases it applies to the paragraph are non-empty verbatim
\* substrings of the paragraph's text taken from the keypoints, at most
\* MAX_KEYPOINTS (5) of them and all of them when there are no more than 5,
\* none shorter than an eligible keypoint that was left out, and they are
\* applied in order of non-increasing length.
C33_LongestFive ==
  [][\A p \in PassIds : \A i \in UnitsOf(p) :
       LET task == TaskOf(p, i)
           after == pass'[p].task[i]
       IN InFlight(task) /\ Settled(after) /\ after.keypoints # <<>>
            => \E sel \in {Wrapped(after, paras[i])} :
                 /\ Selected(paras[i], after.keypoints, sel)
                 /\ dom'[i] = Highlight(dom[i], sel, settings)]_vars

\* a task has settled with seven eligible keypoints, the longest last, and
\* the two shortest are the ones not applied
C33_SevenEligible ==
  \E i \in UnitsOf("message") :
    /\ TaskOf("message", i).pc = "done"
    /\ Len(TaskOf("message", i).keypoints) = 7
    /\ Len(TaskOf("message", i).keypoints[1].chars) = 1
    /\ Cardinality(EligibleIn(paras[i], TaskOf("message", i).keypoints)) = 7
    /\ Len(Wrapped(TaskOf("message", i), paras[i])) = MAX_KEYPOINTS
    /\ Len(Wrapped(TaskOf("message", i), paras[i])[MAX_KEYPOINTS]) = 2
    /\ dom[i] # Serialize(paras[i])

\* C34: when the lookup of the URL marker of a page load fails with a store
\* error, the answer counts as not highlighted and the check goes on to the
\* lookup of the origin's flag; and when that lookup finds the origin enabled,
\* analyzePageContent is called.
C34_UrlFailureStillConsults ==
  [][/\ ~storeUp /\ check.pc = "url" /\ check'.pc # "url" /\ loads' = loads
          => check'.pc = "domain" /\ ~check'.wasUrlHighlighted
     /\ /\ check.pc = "domain" /\ check'.pc = "done" /\ loads' = loads
        /\ ~check.urlRead
        /\ check'.domainRead
        /\ isDomainAutoHighlightEnabled(autoDomains, getCurrentDomain(location), now)
        => AutoApplied']_vars

\* A call that never returns: the fetch of one of the HungCalls is pending.
Hung(i) == i \in UnitsOf("message") /\ TaskOf("message", i).pc = "ai"

SomeCallHung == \E i \in HungCalls : Hung(i)

\* every paragraph of the page except the hung ones has been started and has
\* completed
OthersCompleted ==
  \A i \in DOMAIN paras :
    \/ i \in HungCalls /\ Hung(i)
    \/ i \in UnitsOf("message") /\ TaskOf("message", i).pc = "done"

\* C35: when fewer than LIMIT remote calls of a pass never return, every
\* other paragraph of the page is eventually started and completed, and
\* analyzePageContent does not return.
C35_HungStallsItsSlot ==
  /\ SomeCallHung ~> OthersCompleted
  /\ [](SomeCallHung => pass["message"].pc # "returned")

\* C36: whatever started them (the analyzeContent message, the auto-highlight
\* check), the tasks in flight on the page are never more than LIMIT in all.
C36_PageWideCap ==
  Cardinality(InFlightOf("message")) + Cardinality(InFlightOf("auto")) <= LIMIT

\* C37: the text content of every paragraph is at all times the text it had
\* when the page loaded: highlighting, on a first or a repeated pass, adds
\* wrapper markup only.
C37_TextContentKept ==
  \A i \in DOMAIN dom : TextContent(dom[i]) = paras[i]

\* C38: a task that took its keypoints from the cache does not fail, and a
\* pass over a page with paragraphs in which no task called analyzeWithAI
\* returns success.
C38_CachedEntryHarmless ==
  /\ \A i \in UnitsOf("message") :
       TaskOf("message", i).source = "cache" => TaskOf("message", i).pc # "failed"
  /\ /\ pass["message"].pc = "returned"
     /\ pass["message"].result \notin {"noconfig", "nocontent"}
     /\ \A i \in UnitsOf("message") : ~TaskOf("message", i).aiCalled
     => pass["message"].result = "ok"

\* C39: a call of checkAndAutoHighlight that finds no cache API leaves
\* another call pending; once the API is there the condition for applying
\* highlights is evaluated, once, and analyzePageContent is called by the
\* check at most once.
C39_PolledThenEvaluatedOnce ==
  /\ [][/\ check.pc = "poll" /\ ~check.mounted /\ ~check'.mounted /\ check' # check
           => check'.pc = "poll" /\ check'.polls = check.polls + 1
        /\ check'.evaluations \in {check.evaluations, check.evaluations + 1}
        /\ AutoApplied' /\ ~AutoApplied => check'.evaluations = check.evaluations + 1
        /\ AutoApplied => AutoApplied']_vars
  /\ [](check.evaluations <= 1)
  /\ check.mounted ~> (check.pc = "done" /\ check.evaluations = 1)

====
